---- MODULE Spec2Model ----
(***************************************************************************)
(* A model of the agent simulation of src/simulator: SimulationRunner      *)
(* (run_simulation.py), AgentBase (agent_base.py) and the traders          *)
(* (trader.py), run against a ledger that holds one constant-product pool. *)
(*                                                                         *)
(* Token amounts are in wei.  The ledger is the external collaborator: its *)
(* answers (a read failing, a submission rejected, reverted or timing out) *)
(* are inputs chosen with \E, at most MaxFaults failures per run.          *)
(***************************************************************************)
EXTENDS Integers, Sequences, FiniteSets

(***************************************************************************)
(* Bounds of the model.                                                    *)
(***************************************************************************)
\* config['max_steps'] ranges over 0..MaxSteps
MaxSteps == 2
\* ledger failures injected in one run
MaxFaults == 1
\* number of states of the generator standing for random.Random
RngMod == 8
\* what _distribute_initial_tokens transfers per agent and token (the source
\* sends 10,000 tokens, 10^22 wei; bounded here to stay within TLC's integers)
DistributionAmount == 20000
\* receipt.gasUsed of a mined transaction
GasUsed == 1

(***************************************************************************)
(* Program constants.                                                      *)
(***************************************************************************)
\* len(default_keys)
NumKeys == 10
\* Trader.min_trade_size
min_trade_size == 1000
\* the pool's fee in basis points (amm.functions.fee())
FeeBps == 30

Tokens == {"A", "B"}
Other(tok) == IF tok = "A" THEN "B" ELSE "A"
Addresses == 0 .. (NumKeys - 1)
\* deployer_key is default_keys[0]
DeployerAddress == 0

\* A value that may be absent (Python None, JSON null): <<>> or <<v>>.
None == <<>>
Some(v) == <<v>>
IsNone(o) == o = <<>>

RECURSIVE SumSeq(_)
SumSeq(s) == IF s = <<>> THEN 0 ELSE Head(s) + SumSeq(Tail(s))

(***************************************************************************)
(* Exact floor(a * b / d) for naturals without forming a * b (the ledger   *)
(* computes in 256-bit integers; TLC's are 32-bit).                        *)
(***************************************************************************)
RECURSIVE MulDivQR(_, _, _)
MulDivQR(a, b, d) ==
    IF b = 0 THEN [q |-> 0, r |-> 0]
    ELSE LET h  == MulDivQR(a, b \div 2, d)
             q2 == 2 * h.q + (IF b % 2 = 1 THEN a \div d ELSE 0)
             r2 == 2 * h.r + (IF b % 2 = 1 THEN a % d ELSE 0)
         IN  [q |-> q2 + (r2 \div d), r |-> r2 % d]

MulDiv(a, b, d) == MulDivQR(a, b, d).q

(***************************************************************************)
(* random.Random: a generator whose state is a number below RngMod.  Every *)
(* draw advances the state; the value drawn is the new state.              *)
(***************************************************************************)
RngNext(s) == (5 * s + 3) % RngMod

\* random.Random(seed) when a seed is given, random.Random() (seeded from the
\* operating system, so any state) when it is None
NewRandom(seed) ==
    IF IsNone(seed) THEN 0 .. (RngMod - 1) ELSE {seed[1] % RngMod}

\* random() < pct / 100, for the value s just drawn
RandomBelow(s, pct) == s * 100 < pct * RngMod
\* random.choice(seq) for the value s just drawn
RandomChoice(s, seq) == seq[(s % Len(seq)) + 1]
\* random.randint(lo, hi) for the value s just drawn (lo <= hi)
RandInt(s, lo, hi) == lo + ((s * (hi - lo + 1)) \div RngMod)

VARIABLES
    config,          \* SimulationRunner.config
    agents,          \* SimulationRunner.agents: sequence of agent records
    ledger,          \* the chain: pool reserves, token balances, nonces
    pc,              \* where run_simulation stands
    step,            \* the loop variable of `for step in range(max_steps)`
    current_step,    \* SimulationRunner.current_step
    market_data,     \* the market state read at the start of the tick
    agent_index,     \* position in `for agent in self.agents` (1-based)
    agent_actions,   \* run_step's local list of action reports
    step_results,    \* SimulationRunner.step_results
    simulation_results, \* what run_simulation returns (None until then)
    interrupted,     \* a KeyboardInterrupt reached run_simulation
    faults,          \* ledger failures so far
    tick,            \* history of the tick in flight: its step, how the market
                     \* state read went, and what every agent's turn did
    twin,            \* the same configuration run a second time against the
                     \* same answers of the chain: its generators, its
                     \* decisions and reports of the tick, its step results
    call             \* a single call of a function of the traders, with its
                     \* arguments and what it returned (NoCall during a run)

vars == <<config, agents, ledger, pc, step, current_step, market_data,
          agent_index, agent_actions, step_results, simulation_results,
          interrupted, faults, tick, twin, call>>

(***************************************************************************)
(* The ledger.  ledger = [reserve, balance, tx_count, lp, lp_supply,       *)
(* submitted]: the pool's reserves per token, every address's token        *)
(* balances and transaction count (the nonce its next transaction must     *)
(* carry), every address's balance of the pool's own token and the supply  *)
(* of that token, and the operations the agent whose turn it is has handed *)
(* to the chain during its turn, each with how it ended.                   *)
(***************************************************************************)
TxOutcomes == {"ok", "reverted", "rejected", "timeout"}

\* getAmountOut of the pool: constant product, the fee taken from the input
GetAmountOut(amount_in, reserve_in, reserve_out) ==
    LET amount_in_with_fee == amount_in * ((10000 - FeeBps) \div 10)
    IN  MulDiv(amount_in_with_fee, reserve_out,
               reserve_in * 1000 + amount_in_with_fee)

\* whether the chain would execute the operation `op` of `addr` successfully
Executes(L, addr, op) ==
    CASE op.kind = "approve" -> TRUE
      [] op.kind = "swap" ->
            /\ L.reserve["A"] > 0 /\ L.reserve["B"] > 0
            /\ op.amount_in > 0
            /\ L.balance[addr][op.token_in] >= op.amount_in
            /\ GetAmountOut(op.amount_in, L.reserve[op.token_in],
                            L.reserve[Other(op.token_in)]) >= op.min_amount_out
      [] op.kind = "addLiquidity" ->
            /\ op.amount_a > 0 /\ op.amount_b > 0
            /\ L.balance[addr]["A"] >= op.amount_a
            /\ L.balance[addr]["B"] >= op.amount_b
      [] op.kind = "removeLiquidity" ->
            /\ op.lp_amount > 0
            /\ L.lp[addr] >= op.lp_amount

\* the pool tokens minted for a deposit: the depositor's share of the supply is
\* its share of the reserve of token A; the first deposit sets the supply
Minted(L, amount_a) ==
    IF L.lp_supply = 0 \/ L.reserve["A"] = 0 THEN amount_a
    ELSE MulDiv(amount_a, L.lp_supply, L.reserve["A"])

\* the chain's state after executing `op` of `addr`
Execute(L, addr, op) ==
    CASE op.kind = "approve" -> L
      [] op.kind = "swap" ->
            LET tin  == op.token_in
                tout == Other(op.token_in)
                out  == GetAmountOut(op.amount_in, L.reserve[tin], L.reserve[tout])
            IN  [L EXCEPT !.reserve[tin] = @ + op.amount_in,
                          !.reserve[tout] = @ - out,
                          !.balance[addr][tin] = @ - op.amount_in,
                          !.balance[addr][tout] = @ + out]
      [] op.kind = "addLiquidity" ->
            [L EXCEPT !.reserve["A"] = @ + op.amount_a,
                      !.reserve["B"] = @ + op.amount_b,
                      !.balance[addr]["A"] = @ - op.amount_a,
                      !.balance[addr]["B"] = @ - op.amount_b,
                      !.lp[addr] = @ + Minted(L, op.amount_a),
                      !.lp_supply = @ + Minted(L, op.amount_a)]
      [] op.kind = "removeLiquidity" ->
            LET out_a == MulDiv(op.lp_amount, L.reserve["A"], L.lp_supply)
                out_b == MulDiv(op.lp_amount, L.reserve["B"], L.lp_supply)
            IN  [L EXCEPT !.reserve["A"] = @ - out_a,
                          !.reserve["B"] = @ - out_b,
                          !.balance[addr]["A"] = @ + out_a,
                          !.balance[addr]["B"] = @ + out_b,
                          !.lp[addr] = @ - op.lp_amount,
                          !.lp_supply = @ - op.lp_amount]

\* What happens to a signed transaction carrying `nonce`.  A nonce that is not
\* the sender's transaction count is refused at submission; an operation the
\* chain would not execute fails gas estimation in build_transaction({}) and is
\* never sent.  Otherwise the chain's answer `outcome` stands.
Submission(L, addr, nonce, op, outcome) ==
    IF nonce # L.tx_count[addr] THEN "rejected"
    ELSE IF outcome = "ok" /\ ~Executes(L, addr, op) THEN "rejected"
    ELSE outcome

(***************************************************************************)
(* AgentBase                                                               *)
(***************************************************************************)
\* AgentBase.get_token_balance: a failed read is logged and answered 0
GetTokenBalance(L, a, tok, read_ok) ==
    IF read_ok THEN L.balance[a.address][tok] ELSE 0

\* a send_transaction that logs a failure and returns
Swallows(got) == FALSE

\* send_transaction raises when the transaction did not succeed: `raise
\* Exception("Transaction failed")` on status 0, and `raise` in its except clause
Raises(got) == got # "ok"

\* a send_transaction that counts every transaction mined, reverted or not
SendTransactionCountingMined(a, L, op, outcome) ==
    LET Counted == [a EXCEPT !.nonce = @ + 1,
                             !.transaction_count = @ + 1,
                             !.total_gas_used = @ + GasUsed]
        Receipt(got) ==
        CASE got = "ok" ->
               [agent  |-> Counted,
                ledger |-> [Execute(L, a.address, op) EXCEPT
                                     !.tx_count[a.address] = @ + 1,
                                     !.submitted = Append(@, [op |-> op, failed |-> FALSE])],
                raised |-> Raises(got), mined |-> TRUE, failure |-> ""]
          [] got = "reverted" ->
               [agent  |-> Counted,
                ledger |-> [L EXCEPT !.tx_count[a.address] = @ + 1,
                                     !.submitted = Append(@, [op |-> op, failed |-> TRUE])],
                raised |-> Raises(got), mined |-> TRUE, failure |-> got]
          [] OTHER ->
               [agent |-> a,
                ledger |-> [L EXCEPT !.submitted = Append(@, [op |-> op, failed |-> TRUE])],
                raised |-> Raises(got), mined |-> FALSE, failure |-> got]
    IN  Receipt(Submission(L, a.address, a.nonce, op, outcome))

\* AgentBase.send_transaction (with the build_transaction({}) before it):
\* [agent, ledger, raised, mined, failure]
SendTransaction(a, L, op, outcome) ==
    LET Receipt(got) ==
        CASE got = "ok" ->
               [agent  |-> [a EXCEPT !.nonce = @ + 1,
                                     !.transaction_count = @ + 1,
                                     !.total_gas_used = @ + GasUsed],
                ledger |-> [Execute(L, a.address, op) EXCEPT
                                     !.tx_count[a.address] = @ + 1,
                                     !.submitted = Append(@, [op |-> op, failed |-> FALSE])],
                raised |-> Raises(got), mined |-> TRUE, failure |-> ""]
          [] got = "reverted" ->   \* receipt.status == 0: "Transaction failed"
               [agent  |-> a,
                ledger |-> [L EXCEPT !.tx_count[a.address] = @ + 1,
                                     !.submitted = Append(@, [op |-> op, failed |-> TRUE])],
                raised |-> Raises(got), mined |-> TRUE, failure |-> got]
          [] OTHER ->
               [agent |-> a,
                ledger |-> [L EXCEPT !.submitted = Append(@, [op |-> op, failed |-> TRUE])],
                raised |-> Raises(got), mined |-> FALSE, failure |-> got]
    IN  Receipt(Submission(L, a.address, a.nonce, op, outcome))

\* AgentBase.get_performance_stats, the fields the run keeps
GetPerformanceStats(a) ==
    [agent_id          |-> a.agent_id,
     transaction_count |-> a.transaction_count,
     total_gas_used    |-> a.total_gas_used,
     trade_count       |-> Len(a.trade_history)]

\* `for agent in self.agents: agent_performance[agent.agent_id] = ...`: a dict
\* keyed by agent id; of two agents with one id the later one's entry stays
AgentPerformance(ags) ==
    [id \in {ags[k].agent_id : k \in 1 .. Len(ags)} |->
        GetPerformanceStats(
            ags[CHOOSE k \in 1 .. Len(ags) :
                    /\ ags[k].agent_id = id
                    /\ \A j \in 1 .. Len(ags) : ags[j].agent_id = id => j <= k])]

(***************************************************************************)
(* Trader                                                                  *)
(***************************************************************************)
\* int(balance * self.max_trade_size_ratio), the ratio being 0.1
MaxTradeSizeDivisor == 10
\* no limit below the balance itself
AllOfBalance(balance) == balance

MaxTradeAmount(balance) == balance \div MaxTradeSizeDivisor

\* int(expected_output * (1 - self.slippage_tolerance)), the tolerance 0.05
MinAmountOut(expected_output) == (expected_output * 95) \div 100

\* the quote asked with the reserves in the order (A, B) whatever the token
QuoteOfTokenA(L, amount_in, token_in, read_ok) ==
    IF ~read_ok THEN 0
    ELSE IF L.reserve["A"] = 0 \/ L.reserve["B"] = 0 THEN 0
    ELSE GetAmountOut(amount_in, L.reserve["A"], L.reserve["B"])

\* Trader.calculate_swap_output: reads the reserves from the chain and asks the
\* pool for a quote; any failure (a failed read, the pool refusing a zero
\* reserve) is logged and answered 0
CalculateSwapOutput(L, amount_in, token_in, read_ok) ==
    IF ~read_ok THEN 0
    ELSE IF L.reserve["A"] = 0 \/ L.reserve["B"] = 0 THEN 0
    ELSE GetAmountOut(amount_in, L.reserve[token_in], L.reserve[Other(token_in)])

\* Trader.execute_swap.  ans: the chain's answers (quote, approve, swap, log).
\* Result: [agent, ledger, tx_hash (TRUE when a hash is returned, FALSE for
\* None), mined (some transaction of this call was mined), failure (how a
\* submission failed, "" when none did), faults (failures consumed)].
ExecuteSwap(a, L, amount_in, token_in, ans) ==
    LET qf == IF ans.quote THEN 0 ELSE 1
        Failed(r, nf) ==
            [agent |-> [r.agent EXCEPT !.failed_trades = @ + 1], ledger |-> r.ledger,
             tx_hash |-> FALSE, mined |-> r.mined, failure |-> r.failure,
             faults |-> qf + nf]
        Swapped(sw, min_amount_out) ==
            IF sw.raised THEN
                Failed([sw EXCEPT !.mined = TRUE], IF ans.swap = "ok" THEN 0 ELSE 1)
            ELSE IF ~ans.log THEN   \* log_trade's read of the latest block raises
                Failed(sw, 1)
            ELSE
                [agent |-> [sw.agent EXCEPT
                              !.trade_history = Append(@,
                                  [trade_type |-> "SWAP", amount_in |-> amount_in,
                                   token_in |-> token_in, token_out |-> Other(token_in),
                                   min_amount_out |-> min_amount_out]),
                              !.successful_trades = @ + 1,
                              !.total_volume = @ + amount_in],
                 ledger |-> sw.ledger, tx_hash |-> TRUE,
                 mined |-> TRUE, failure |-> "", faults |-> qf]
        Approved(ap, min_amount_out) ==
            IF ap.raised THEN Failed(ap, IF ans.approve = "ok" THEN 0 ELSE 1)
            ELSE Swapped(SendTransaction(ap.agent, ap.ledger,
                             [kind |-> "swap", token_in |-> token_in,
                              amount_in |-> amount_in,
                              min_amount_out |-> min_amount_out], ans.swap),
                         min_amount_out)
    IN  Approved(SendTransaction(a, L, [kind |-> "approve", token |-> token_in],
                                 ans.approve),
                 MinAmountOut(CalculateSwapOutput(L, amount_in, token_in, ans.quote)))

(***************************************************************************)
(* RandomTrader                                                            *)
(*                                                                         *)
(* should_act and step return what the call did:                           *)
(*   agent, ledger  the agent and the chain after the call                 *)
(*   raised         the call raised an exception to its caller             *)
(*   result/report  what the call returned                                 *)
(*   observed       the pool reserves the call read from the chain, if any *)
(*   mined          a transaction of the call was mined                    *)
(*   failure        how a submission of the call failed ("" if none did)   *)
(*   business       a business-logic failure: nothing tradeable, or the    *)
(*                  largest allowed trade is below min_trade_size          *)
(*   faults         ledger failures the call met                           *)
(***************************************************************************)
\* `self.random.random() < self.trade_frequency`: the draw is made, then the
\* comparison raises TypeError when the configured frequency is no number
RandomTraderShouldAct(a, L, ans) ==
    LET s == RngNext(a.random)
    IN  [agent    |-> [a EXCEPT !.random = s],
         raised   |-> IsNone(a.trade_frequency),
         result   |-> IF IsNone(a.trade_frequency) THEN FALSE
                      ELSE RandomBelow(s, a.trade_frequency[1]),
         observed |-> None,
         faults   |-> 0]

RandomTraderStep(a, L, ans) ==
    LET actions   == [agent_id |-> a.agent_id, agent_type |-> "random_trader",
                      actions_taken |-> <<>>, error |-> ""]
        rf == (IF ans.balance_a THEN 0 ELSE 1) + (IF ans.balance_b THEN 0 ELSE 1)
        NoTrade(ag, report) ==
            [agent |-> ag, ledger |-> L, raised |-> FALSE, report |-> report,
             observed |-> None, mined |-> FALSE, failure |-> "",
             business |-> TRUE, faults |-> rf]
        Traded(sw, token_in, trade_amount) ==
            [agent |-> sw.agent, ledger |-> sw.ledger, raised |-> FALSE,
             report |-> IF sw.tx_hash
                        THEN [actions EXCEPT !.actions_taken =
                                <<[action |-> "random_swap", token_in |-> token_in,
                                   amount |-> trade_amount]>>]
                        ELSE actions,
             observed |-> IF ans.quote THEN Some(L.reserve) ELSE None,
             mined |-> sw.mined, failure |-> sw.failure,
             business |-> FALSE, faults |-> rf + sw.faults]
        Trade(s2, token_in, trade_amount) ==
            Traded(ExecuteSwap([a EXCEPT !.random = s2], L, trade_amount, token_in, ans),
                   token_in, trade_amount)
        Chosen(s1, chosen, max_trade_amount) ==
            IF max_trade_amount < min_trade_size THEN
                \* random.randint on an empty range raises ValueError, which the
                \* except clause of step turns into actions['error']
                NoTrade([a EXCEPT !.random = s1],
                        [actions EXCEPT !.error = "empty range for randrange()"])
            ELSE Trade(RngNext(s1), chosen.token,
                       RandInt(RngNext(s1), min_trade_size, max_trade_amount))
        Choose(s1, tradeable_tokens) ==
            IF tradeable_tokens = <<>> THEN NoTrade(a, actions)
            ELSE Chosen(s1, RandomChoice(s1, tradeable_tokens),
                        MaxTradeAmount(RandomChoice(s1, tradeable_tokens).balance))
        Balances(balance_a, balance_b) ==
            Choose(RngNext(a.random),
                (IF balance_a > min_trade_size
                    THEN <<[token |-> "A", balance |-> balance_a]>> ELSE <<>>)
                \o (IF balance_b > min_trade_size
                    THEN <<[token |-> "B", balance |-> balance_b]>> ELSE <<>>))
    IN  Balances(GetTokenBalance(L, a, "A", ans.balance_a),
                 GetTokenBalance(L, a, "B", ans.balance_b))

(***************************************************************************)
(* Prices and momentum are fractions [num, den] with den > 0; Python works *)
(* with floats, the model with the exact values.                           *)
(***************************************************************************)
Fraction(num, den) == [num |-> num, den |-> den]
ZeroFraction == Fraction(0, 1)

\* a price that is reserveB / reserveA
InversePrice(L, read_ok) ==
    IF ~read_ok THEN ZeroFraction
    ELSE IF L.reserve["A"] = 0 THEN ZeroFraction
    ELSE Fraction(L.reserve["B"], L.reserve["A"])

\* Trader.get_pool_price: reserve_a / reserve_b, 0.0 when reserve_b is 0 and
\* when the read of the reserves fails
GetPoolPrice(L, read_ok) ==
    IF ~read_ok THEN ZeroFraction
    ELSE IF L.reserve["B"] = 0 THEN ZeroFraction
    ELSE Fraction(L.reserve["A"], L.reserve["B"])

\* the Python slice seq[-n:] for n >= 0: the last n elements, and all of seq
\* when n is 0 (-0 is 0) or more than its length
LastOf(seq, n) ==
    IF n = 0 \/ n >= Len(seq) THEN seq
    ELSE SubSeq(seq, Len(seq) - n + 1, Len(seq))

\* a momentum taken over the first samples of the history
MomentumOfFirst(price_history, lookback_periods) ==
    IF Len(price_history) < lookback_periods \/ price_history = <<>>
    THEN [raised |-> FALSE, value |-> ZeroFraction]
    ELSE LET oldest == price_history[1]
             newest == price_history[IF lookback_periods = 0 THEN 1
                                     ELSE lookback_periods]
         IN  IF oldest.num = 0 THEN [raised |-> FALSE, value |-> ZeroFraction]
             ELSE [raised |-> FALSE,
                   value |-> Fraction(newest.num * oldest.den - oldest.num * newest.den,
                                      oldest.num * newest.den)]

\* MomentumTrader.calculate_momentum: [raised, value].  recent_prices[0] of an
\* empty list raises IndexError.
CalculateMomentum(price_history, lookback_periods) ==
    IF Len(price_history) < lookback_periods
    THEN [raised |-> FALSE, value |-> ZeroFraction]
    ELSE LET recent_prices == LastOf(price_history, lookback_periods)
             oldest == recent_prices[1]
             newest == recent_prices[Len(recent_prices)]
         IN  IF recent_prices = <<>> THEN [raised |-> TRUE, value |-> ZeroFraction]
             ELSE IF oldest.num = 0 THEN [raised |-> FALSE, value |-> ZeroFraction]
             ELSE [raised |-> FALSE,
                   value |-> Fraction(newest.num * oldest.den - oldest.num * newest.den,
                                      oldest.num * newest.den)]

\* value > pct / 100 and value < -pct / 100, for a fraction and a percentage
Above(value, pct) == value.num > MulDiv(value.den, pct, 100)

\* a fall of any size
BelowZero(value, pct) == value.num < 0
Below(value, pct) == 0 - value.num > MulDiv(value.den, pct, 100)

\* `if len(self.price_history) > self.lookback_periods * 2:
\*      self.price_history = self.price_history[-self.lookback_periods:]`
Truncate(price_history, lookback_periods) ==
    IF Len(price_history) > 2 * lookback_periods
    THEN LastOf(price_history, lookback_periods)
    ELSE price_history

(***************************************************************************)
(* MomentumTrader                                                          *)
(***************************************************************************)
\* MomentumTrader.should_act: the pool price joins the history, which is cut
\* when it has grown too long; the generator is drawn from only when the
\* momentum is within the threshold (`or` evaluates its right side only then)
MomentumTraderShouldAct(a, L, ans) ==
    LET Decided(history, momentum, s) ==
            LET has_momentum == \/ Above(momentum.value, a.momentum_threshold)
                                \/ Below(momentum.value, a.momentum_threshold)
            IN  [agent    |-> [a EXCEPT !.price_history = history,
                                        !.random = IF has_momentum \/ momentum.raised
                                                   THEN @ ELSE s],
                 raised   |-> momentum.raised,
                 result   |-> /\ ~momentum.raised
                              /\ (has_momentum
                                  \/ RandomBelow(s, a.trade_frequency[1])),
                 observed |-> IF ans.price THEN Some(L.reserve) ELSE None,
                 faults   |-> IF ans.price THEN 0 ELSE 1]
        Appended(history) ==
            Decided(history, CalculateMomentum(history, a.lookback_periods),
                    RngNext(a.random))
    IN  Appended(Truncate(Append(a.price_history, GetPoolPrice(L, ans.price)),
                          a.lookback_periods))

MomentumTraderStep(a, L, ans) ==
    LET actions == [agent_id |-> a.agent_id, agent_type |-> "momentum_trader",
                    actions_taken |-> <<>>, error |-> ""]
        rf == (IF ans.balance_a THEN 0 ELSE 1) + (IF ans.balance_b THEN 0 ELSE 1)
        NoTrade(report, nf) ==
            [agent |-> a, ledger |-> L, raised |-> FALSE, report |-> report,
             observed |-> None, mined |-> FALSE, failure |-> "",
             business |-> FALSE, faults |-> nf]
        Traded(sw, token_in, trade_amount) ==
            [agent |-> sw.agent, ledger |-> sw.ledger, raised |-> FALSE,
             report |-> IF sw.tx_hash
                        THEN [actions EXCEPT !.actions_taken =
                                <<[action |-> IF token_in = "B" THEN "momentum_buy_a"
                                              ELSE "momentum_sell_a",
                                   amount |-> trade_amount]>>]
                        ELSE actions,
             observed |-> IF ans.quote THEN Some(L.reserve) ELSE None,
             mined |-> sw.mined, failure |-> sw.failure,
             business |-> FALSE, faults |-> rf + sw.faults]
        Go(direction) ==
            IF direction = <<>> THEN NoTrade(actions, rf)
            ELSE Traded(ExecuteSwap(a, L, MaxTradeAmount(direction[2]), direction[1], ans),
                        direction[1], MaxTradeAmount(direction[2]))
        Balances(momentum, balance_a, balance_b) ==
            IF momentum.raised
            THEN NoTrade([actions EXCEPT !.error = "list index out of range"], 0)
            ELSE Go(IF Above(momentum.value, a.momentum_threshold)
                       /\ balance_b > min_trade_size THEN <<"B", balance_b>>
                    ELSE IF Below(momentum.value, a.momentum_threshold)
                            /\ balance_a > min_trade_size THEN <<"A", balance_a>>
                    ELSE <<>>)
    IN  Balances(CalculateMomentum(a.price_history, a.lookback_periods),
                 GetTokenBalance(L, a, "A", ans.balance_a),
                 GetTokenBalance(L, a, "B", ans.balance_b))

(***************************************************************************)
(* ArbitrageTrader                                                         *)
(***************************************************************************)
\* the whole balance put to the test
WholeBalance(balance_a) == balance_a

\* test_amount = int(balance_a * 0.1)
TestAmount(balance_a) == balance_a \div 10

\* a round trip that returns more than went in
AnyProfit(profit, test_amount, pct) == profit > 0

\* profit_percentage > self.min_profit_threshold, with profit_percentage =
\* profit / test_amount and the threshold `pct` in hundredths
Profitable(profit, test_amount, pct) == profit * 100 > pct * test_amount

\* ArbitrageTrader.find_arbitrage_opportunity after its read of the pool price,
\* whose value it does not use: [opportunity, faults].  profit_percentage and
\* min_profit_threshold are compared as percentages.
FindArbitrageOpportunity(a, L, ok_a, ok_b, ok_quote) ==
    LET balance_a   == GetTokenBalance(L, a, "A", ok_a)
        test_amount == TestAmount(balance_a)
        b_received  == CalculateSwapOutput(L, test_amount, "A", ok_quote)
        a_received  == CalculateSwapOutput(L, b_received, "B", ok_quote)
        profit      == a_received - test_amount
    IN  [opportunity |->
            IF /\ balance_a > min_trade_size
               /\ b_received > 0
               /\ Profitable(profit, test_amount, a.min_profit_threshold)
            THEN Some([amount |-> test_amount, expected_profit |-> profit])
            ELSE None,
         faults |-> (IF ok_a THEN 0 ELSE 1) + (IF ok_b THEN 0 ELSE 1)
                    + (IF balance_a > min_trade_size /\ ~ok_quote THEN 1 ELSE 0)]

\* ArbitrageTrader.should_act: `opportunity is not None`
ArbitrageTraderShouldAct(a, L, ans) ==
    LET Found(f) ==
            [agent    |-> a,
             raised   |-> FALSE,
             result   |-> ~IsNone(f.opportunity),
             observed |-> IF ans.price \/ (ans.ask_reserves /\ ans.ask_balance_a
                                           /\ L.balance[a.address]["A"] > min_trade_size)
                          THEN Some(L.reserve) ELSE None,
             faults   |-> f.faults + (IF ans.price THEN 0 ELSE 1)]
    IN  Found(FindArbitrageOpportunity(a, L, ans.ask_balance_a, ans.ask_balance_b,
                                       ans.ask_reserves))

\* ArbitrageTrader.step: the first leg of the round trip.  Its read of the pool
\* price, unused, is taken to succeed.
ArbitrageTraderStep(a, L, ans) ==
    LET actions == [agent_id |-> a.agent_id, agent_type |-> "arbitrage_trader",
                    actions_taken |-> <<>>, error |-> ""]
        Traded(sw, f) ==
            [agent |-> sw.agent, ledger |-> sw.ledger, raised |-> FALSE,
             report |-> IF sw.tx_hash
                        THEN [actions EXCEPT !.actions_taken =
                                <<[action |-> "arbitrage_leg_1",
                                   expected_profit |-> f.opportunity[1].expected_profit]>>]
                        ELSE actions,
             observed |-> Some(L.reserve),
             mined |-> sw.mined, failure |-> sw.failure,
             business |-> FALSE, faults |-> f.faults + sw.faults]
        Found(f) ==
            IF IsNone(f.opportunity) THEN
                [agent |-> a, ledger |-> L, raised |-> FALSE, report |-> actions,
                 observed |-> Some(L.reserve), mined |-> FALSE, failure |-> "",
                 business |-> FALSE, faults |-> f.faults]
            ELSE Traded(ExecuteSwap(a, L, f.opportunity[1].amount, "A", ans), f)
    IN  Found(FindArbitrageOpportunity(a, L, ans.balance_a, ans.balance_b, ans.quote))

(***************************************************************************)
(* MarketMaker                                                             *)
(***************************************************************************)
\* a read of the pool token balance that always answers 0
LpBalanceUnread(L, a, read_ok) == [agent |-> a, balance |-> 0]

\* MarketMaker.get_lp_balance: the balance read is also kept in
\* self.lp_token_balance; a failed read is logged and answered 0
GetLpBalance(L, a, read_ok) ==
    [agent   |-> IF read_ok THEN [a EXCEPT !.lp_token_balance = L.lp[a.address]]
                 ELSE a,
     balance |-> IF read_ok THEN L.lp[a.address] ELSE 0]

\* MarketMaker.get_pool_reserves: a failed read is logged and answered (0, 0)
GetPoolReserves(L, read_ok) ==
    IF read_ok THEN L.reserve ELSE [A |-> 0, B |-> 0]

\* the first deposit into an empty pool, not cut to what is available
InitialAmountsUnclamped(available_a, available_b) ==
    LET amount_a == ((available_a + available_b) * 45) \div 100
    IN  <<amount_a, amount_a>>

\* MarketMaker.calculate_optimal_liquidity_amounts on an empty pool, with
\* target_ratio 0.5 and max_liquidity_ratio 0.9: total_value_a is
\* available_a + available_b, amount_a = int(total_value_a * 0.5 * 0.9),
\* amount_b = int(amount_a * 0.5 / 0.5), each cut to what is available
InitialLiquidityAmounts(available_a, available_b) ==
    LET amount_a == ((available_a + available_b) * 45) \div 100
    IN  <<IF amount_a < available_a THEN amount_a ELSE available_a,
          IF amount_a < available_b THEN amount_a ELSE available_b>>

\* the second test made against the balance of the other token
SecondTestCrossed(available_a, available_b, r) ==
    LET amount_a   == (available_a * 9) \div 10
        required_b == MulDiv(amount_a, r["B"], r["A"])
        amount_b   == (available_b * 9) \div 10
        required_a == MulDiv(amount_b, r["A"], r["B"])
    IN  IF required_b <= available_b THEN "token_a_first"
        ELSE IF required_a <= available_b THEN "token_b_first"
        ELSE "scale_down"

\* MarketMaker.calculate_optimal_liquidity_amounts on a pool with both
\* reserves: which of its three returns is taken
PoolRatioBranch(available_a, available_b, r) ==
    LET amount_a   == (available_a * 9) \div 10
        required_b == MulDiv(amount_a, r["B"], r["A"])
        amount_b   == (available_b * 9) \div 10
        required_a == MulDiv(amount_b, r["A"], r["B"])
    IN  IF required_b <= available_b THEN "token_a_first"
        ELSE IF required_a <= available_a THEN "token_b_first"
        ELSE "scale_down"

\* the amounts at the pool's ratio, token B tried before token A
TokenBFirst(available_a, available_b, r) ==
    LET amount_a   == (available_a * 9) \div 10
        required_b == MulDiv(amount_a, r["B"], r["A"])
        amount_b   == (available_b * 9) \div 10
        required_a == MulDiv(amount_b, r["A"], r["B"])
    IN  IF required_a <= available_a THEN <<required_a, amount_b>>
        ELSE <<amount_a, required_b>>

\* MarketMaker.calculate_optimal_liquidity_amounts on a pool with both
\* reserves: 90% of token A and the token B the pool's ratio asks for, else
\* 90% of token B and the token A it asks for, else both scaled down
PoolRatioLiquidityAmounts(available_a, available_b, r) ==
    LET amount_a   == (available_a * 9) \div 10
        required_b == MulDiv(amount_a, r["B"], r["A"])
        amount_b   == (available_b * 9) \div 10
        required_a == MulDiv(amount_b, r["A"], r["B"])
        branch     == PoolRatioBranch(available_a, available_b, r)
    IN  IF branch = "token_a_first" THEN <<amount_a, required_b>>
        ELSE IF branch = "token_b_first" THEN <<required_a, amount_b>>
        ELSE IF available_a * required_b <= available_b * required_a
             THEN <<available_a, MulDiv(required_b, available_a, required_a)>>
             ELSE <<MulDiv(required_a, available_b, required_b), available_b>>

\* MarketMaker.calculate_optimal_liquidity_amounts for the reserves `r` just
\* read, target_ratio 0.5 and max_liquidity_ratio 0.9: <<amount_a, amount_b>>.
\* The source computes in floating point and truncates; the integer
\* arithmetic here gives the same amounts on every argument the calls below
\* are made with.
CalculateOptimalLiquidityAmounts(available_a, available_b, r) ==
    IF r["A"] = 0 \/ r["B"] = 0
    THEN InitialLiquidityAmounts(available_a, available_b)
    ELSE PoolRatioLiquidityAmounts(available_a, available_b, r)

\* the loss computed with the initial ratio upside down
ImpermanentLossInverted(a, L, read_ok) ==
    LET initial == a.initial_reserves[1]
        current == GetPoolReserves(L, read_ok)
        p == current["A"] * initial["A"]
        q == current["B"] * initial["B"]
    IN  IF IsNone(a.initial_reserves) THEN Fraction(1, 1)
        ELSE IF p = 0 \/ q = 0 THEN Fraction(1, 1)
        ELSE Fraction(4 * p * q, (p + q) * (p + q))

\* MarketMaker.calculate_impermanent_loss.  With x the ratio_change
\* (current_a / current_b) / (initial_a / initial_b) = p / q, the loss is
\* il = 2 * sqrt(x) / (1 + x) - 1; the result here is (1 + il)^2 as the exact
\* fraction 4 * p * q / (p + q)^2, so that il = 0 exactly when num = den.  The
\* early returns of 0.0 give 1 / 1.
CalculateImpermanentLoss(a, L, read_ok) ==
    LET initial == a.initial_reserves[1]
        current == GetPoolReserves(L, read_ok)
        p == current["A"] * initial["B"]
        q == current["B"] * initial["A"]
    IN  IF IsNone(a.initial_reserves) THEN Fraction(1, 1)
        ELSE IF initial["A"] = 0 \/ initial["B"] = 0
                \/ current["A"] = 0 \/ current["B"] = 0 THEN Fraction(1, 1)
        ELSE Fraction(4 * p * q, (p + q) * (p + q))

\* the deviation taken of reserve_a / reserve_b instead of the share of
\* token A: |a / b - 0.5| > 0.05
RatioOfReserves(r) ==
    IF r["A"] = 0 \/ r["B"] = 0 THEN FALSE
    ELSE (IF 2 * r["A"] >= r["B"] THEN 20 * r["A"] - 10 * r["B"]
          ELSE 10 * r["B"] - 20 * r["A"]) > r["B"]

\* MarketMaker.should_rebalance for the reserves `r` just read:
\* |a / (a + b) - 0.5| > 0.05
ShouldRebalance(r) ==
    IF r["A"] = 0 \/ r["B"] = 0 THEN FALSE
    ELSE 10 * (IF r["A"] >= r["B"] THEN r["A"] - r["B"] ELSE r["B"] - r["A"])
             > r["A"] + r["B"]

\* MarketMaker.add_liquidity and MarketMaker.remove_liquidity return what
\* ExecuteSwap returns.  add_liquidity: the two approvals, the deposit, the
\* trade log; whatever raises is logged and answered None.  The read kept in
\* initial_reserves is taken to succeed.
AddLiquidity(a, L, amount_a, amount_b, ans) ==
    LET Failed(r, nf) ==
            [agent |-> r.agent, ledger |-> r.ledger, tx_hash |-> FALSE,
             mined |-> r.mined, failure |-> r.failure, faults |-> nf]
        Added(ad) ==
            IF ad.raised THEN
                Failed([ad EXCEPT !.mined = TRUE], IF ans.swap = "ok" THEN 0 ELSE 1)
            ELSE IF ~ans.log THEN Failed(ad, 1)
            ELSE
                [agent |-> [ad.agent EXCEPT
                              !.trade_history = Append(@,
                                  [trade_type |-> "ADD_LIQUIDITY",
                                   amount_a |-> amount_a, amount_b |-> amount_b]),
                              !.initial_reserves =
                                  IF IsNone(@) THEN Some(ad.ledger.reserve) ELSE @],
                 ledger |-> ad.ledger, tx_hash |-> TRUE,
                 mined |-> TRUE, failure |-> "", faults |-> 0]
        ApprovedB(ap) ==
            IF ap.raised THEN
                Failed([ap EXCEPT !.mined = TRUE], IF ans.approve_b = "ok" THEN 0 ELSE 1)
            ELSE Added(SendTransaction(ap.agent, ap.ledger,
                           [kind |-> "addLiquidity", amount_a |-> amount_a,
                            amount_b |-> amount_b], ans.swap))
        ApprovedA(ap) ==
            IF ap.raised THEN Failed(ap, IF ans.approve = "ok" THEN 0 ELSE 1)
            ELSE ApprovedB(SendTransaction(ap.agent, ap.ledger,
                               [kind |-> "approve", token |-> "B"], ans.approve_b))
    IN  ApprovedA(SendTransaction(a, L, [kind |-> "approve", token |-> "A"],
                                  ans.approve))

RemoveLiquidity(a, L, lp_amount, ans) ==
    LET Removed(rm) ==
            IF rm.raised THEN
                [agent |-> rm.agent, ledger |-> rm.ledger, tx_hash |-> FALSE,
                 mined |-> rm.mined, failure |-> rm.failure,
                 faults |-> IF ans.swap = "ok" THEN 0 ELSE 1]
            ELSE IF ~ans.log THEN
                [agent |-> rm.agent, ledger |-> rm.ledger, tx_hash |-> FALSE,
                 mined |-> rm.mined, failure |-> rm.failure, faults |-> 1]
            ELSE
                [agent |-> [rm.agent EXCEPT
                              !.trade_history = Append(@,
                                  [trade_type |-> "REMOVE_LIQUIDITY",
                                   lp_amount |-> lp_amount])],
                 ledger |-> rm.ledger, tx_hash |-> TRUE,
                 mined |-> TRUE, failure |-> "", faults |-> 0]
    IN  Removed(SendTransaction(a, L, [kind |-> "removeLiquidity",
                                       lp_amount |-> lp_amount], ans.swap))

\* MarketMaker.should_act: true with tokens and no position, true when the pool
\* is off balance, else a draw against 10%
MarketMakerShouldAct(a, L, ans) ==
    LET rf == (IF ans.ask_balance_a THEN 0 ELSE 1) + (IF ans.ask_balance_b THEN 0 ELSE 1)
              + (IF ans.ask_lp THEN 0 ELSE 1)
        s  == RngNext(a.random)
        Read(balance_a, balance_b, lp) ==
            IF lp.balance = 0 /\ (balance_a > 0 \/ balance_b > 0) THEN
                [agent |-> lp.agent, raised |-> FALSE, result |-> TRUE,
                 observed |-> None, faults |-> rf]
            ELSE
                [agent |-> IF ShouldRebalance(GetPoolReserves(L, ans.ask_reserves))
                           THEN lp.agent ELSE [lp.agent EXCEPT !.random = s],
                 raised |-> FALSE,
                 result |-> \/ ShouldRebalance(GetPoolReserves(L, ans.ask_reserves))
                            \/ RandomBelow(s, 10),
                 observed |-> IF ans.ask_reserves THEN Some(L.reserve) ELSE None,
                 faults |-> rf + (IF ans.ask_reserves THEN 0 ELSE 1)]
    IN  Read(GetTokenBalance(L, a, "A", ans.ask_balance_a),
             GetTokenBalance(L, a, "B", ans.ask_balance_b),
             GetLpBalance(L, a, ans.ask_lp))

\* the whole position taken out at once
WholePosition(lp_balance) == lp_balance

\* rebalance_amount = int(lp_balance * 0.1)
RebalanceAmount(lp_balance) == lp_balance \div 10

\* MarketMaker.step: a first deposit when there is no position, else the
\* removal of a tenth of the position when the pool is off balance.  The read
\* of calculate_impermanent_loss, whose result the run does not keep, is taken
\* to succeed.
MarketMakerStep(a, L, ans) ==
    LET actions == [agent_id |-> a.agent_id, agent_type |-> "market_maker",
                    actions_taken |-> <<>>, error |-> ""]
        rf == (IF ans.balance_a THEN 0 ELSE 1) + (IF ans.balance_b THEN 0 ELSE 1)
              + (IF ans.lp THEN 0 ELSE 1) + (IF ans.quote THEN 0 ELSE 1)
        Nothing(ag) ==
            [agent |-> ag, ledger |-> L, raised |-> FALSE, report |-> actions,
             observed |-> IF ans.quote THEN Some(L.reserve) ELSE None,
             mined |-> FALSE, failure |-> "", business |-> FALSE, faults |-> rf]
        Done(r, action) ==
            [agent |-> r.agent, ledger |-> r.ledger, raised |-> FALSE,
             report |-> IF r.tx_hash
                        THEN [actions EXCEPT !.actions_taken = <<action>>]
                        ELSE actions,
             observed |-> IF ans.quote THEN Some(L.reserve) ELSE None,
             mined |-> r.mined, failure |-> r.failure,
             business |-> FALSE, faults |-> rf + r.faults]
        Deposit(ag, amounts) ==
            IF amounts[1] > 0 /\ amounts[2] > 0
            THEN Done(AddLiquidity(ag, L, amounts[1], amounts[2], ans),
                      [action |-> "add_initial_liquidity",
                       amount_a |-> amounts[1], amount_b |-> amounts[2]])
            ELSE Nothing(ag)
        Withdraw(ag, rebalance_amount) ==
            IF rebalance_amount > 0
            THEN Done(RemoveLiquidity(ag, L, rebalance_amount, ans),
                      [action |-> "rebalance_remove", lp_amount |-> rebalance_amount])
            ELSE Nothing(ag)
        Read(balance_a, balance_b, lp, r) ==
            IF lp.balance = 0 /\ (balance_a > 0 \/ balance_b > 0)
            THEN Deposit(lp.agent, CalculateOptimalLiquidityAmounts(balance_a, balance_b, r))
            ELSE IF ShouldRebalance(r)
                 THEN Withdraw(lp.agent, RebalanceAmount(lp.balance))
            ELSE Nothing(lp.agent)
    IN  Read(GetTokenBalance(L, a, "A", ans.balance_a),
             GetTokenBalance(L, a, "B", ans.balance_b),
             GetLpBalance(L, a, ans.lp),
             GetPoolReserves(L, ans.quote))

(***************************************************************************)
(* Dispatch on the agent's class.                                          *)
(***************************************************************************)
ShouldAct(a, L, ans) ==
    CASE a.agent_type = "random_trader" -> RandomTraderShouldAct(a, L, ans)
      [] a.agent_type = "momentum_trader" -> MomentumTraderShouldAct(a, L, ans)
      [] a.agent_type = "arbitrage_trader" -> ArbitrageTraderShouldAct(a, L, ans)
      [] a.agent_type = "market_maker" -> MarketMakerShouldAct(a, L, ans)

Step(a, L, ans) ==
    CASE a.agent_type = "random_trader" -> RandomTraderStep(a, L, ans)
      [] a.agent_type = "momentum_trader" -> MomentumTraderStep(a, L, ans)
      [] a.agent_type = "arbitrage_trader" -> ArbitrageTraderStep(a, L, ans)
      [] a.agent_type = "market_maker" -> MarketMakerStep(a, L, ans)

(***************************************************************************)
(* What the chain answers during one agent's turn.  The reads: in          *)
(* should_act, of the balances, the pool token balance and the reserves    *)
(* (the names starting with ask) and of the pool price; in step, of the    *)
(* balances, the pool token balance, the reserves (quote) and the latest   *)
(* block (log).  The submissions: the approval, the second approval of a   *)
(* deposit, and the operation itself (swap).                               *)
(***************************************************************************)
Reads == {"ask_balance_a", "ask_balance_b", "ask_lp", "ask_reserves", "price",
          "balance_a", "balance_b", "lp", "quote", "log"}
Submissions == {"approve", "approve_b", "swap"}

\* the answers in which exactly the reads and submissions in `failing` fail,
\* the submissions ending as `outcome`
AnswersFailing(failing, outcome) ==
    [p \in Reads \cup Submissions |->
        IF p \in Reads THEN p \notin failing
        ELSE IF p \in failing THEN outcome ELSE "ok"]

\* the reads and submissions the agents of a class make
MadeBy(agent_type) ==
    CASE agent_type = "random_trader" ->
            {"balance_a", "balance_b", "quote", "log", "approve", "swap"}
      [] agent_type = "momentum_trader" ->
            {"price", "balance_a", "balance_b", "quote", "log", "approve", "swap"}
      [] agent_type = "arbitrage_trader" ->
            {"price", "ask_balance_a", "ask_balance_b", "ask_reserves",
             "balance_a", "balance_b", "quote", "log", "approve", "swap"}
      [] agent_type = "market_maker" ->
            (Reads \cup Submissions) \ {"price"}

\* the sets of at most n of the reads and submissions `made`
RECURSIVE AtMost(_, _)
AtMost(n, made) ==
    IF n = 0 THEN {{}}
    ELSE AtMost(n - 1, made)
         \cup {failing \cup {p} : failing \in AtMost(n - 1, made), p \in made}

\* what the chain may answer an agent of a class when it can still fail n times
Answers(n, agent_type) ==
    {AnswersFailing(failing, outcome) :
        failing \in AtMost(n, MadeBy(agent_type)), outcome \in TxOutcomes \ {"ok"}}

\* the failures among the answers
FaultsIn(ans) ==
    Cardinality({p \in Reads : ~ans[p]})
    + Cardinality({p \in Submissions : ans[p] # "ok"})

(***************************************************************************)
(* SimulationRunner: construction                                          *)
(***************************************************************************)
KnownTypes == {"market_maker", "random_trader", "momentum_trader", "arbitrage_trader"}

\* an agent built without a seed: random.Random() seeds itself from the system
UnseededAgent(cfg, i) == None

\* random_seed=self.config.get('random_seed', 42) + i
AgentSeed(cfg, i) == Some(cfg.random_seed + i)

\* an agent id made of the type alone
AgentIdByType(type, i) == <<type, 0>>

\* agent_id = f"{agent_type}_{i}"
AgentId(type, i) == <<type, i>>

\* The agent built for the i-th (0-based) entry `ac` of config['agents'], its
\* generator in state `rnd`: AgentBase.__init__ and the __init__ of its class.
\* A field its class does not have keeps the value given here and is never read.
NewAgent(ac, i, L, rnd) ==
    [agent_id          |-> AgentId(ac.type, i),
     agent_type        |-> ac.type,
     address           |-> i % NumKeys,
     random            |-> rnd,
     nonce             |-> L.tx_count[i % NumKeys],
     transaction_count |-> 0,
     total_gas_used    |-> 0,
     trade_history     |-> <<>>,
     trade_frequency   |-> ac.trade_frequency,
     successful_trades |-> 0,
     failed_trades     |-> 0,
     total_volume      |-> 0,
     lookback_periods  |-> ac.lookback_periods,
     momentum_threshold |-> ac.momentum_threshold,
     price_history     |-> <<>>,
     min_profit_threshold |-> ac.min_profit_threshold,
     lp_token_balance  |-> 0,
     initial_reserves  |-> None]

\* SimulationRunner._setup_agents from entry i on: the agent lists it can build
\* (one per state the generators can start in); an unknown type is skipped
RECURSIVE SetupAgents(_, _, _)
SetupAgents(cfg, L, i) ==
    IF i >= Len(cfg.agents) THEN {<<>>}
    ELSE IF cfg.agents[i + 1].type \notin KnownTypes THEN SetupAgents(cfg, L, i + 1)
    ELSE {<<NewAgent(cfg.agents[i + 1], i, L, rnd)>> \o rest :
              rnd \in NewRandom(AgentSeed(cfg, i)),
              rest \in SetupAgents(cfg, L, i + 1)}

(***************************************************************************)
(* SimulationRunner._distribute_initial_tokens: for every agent, a         *)
(* transfer of each token from the deployer.  The transactions carry their *)
(* own gas, so each is mined (and reverts when the deployer cannot pay).   *)
(***************************************************************************)
Transfer(L, to, tok) ==
    LET paid == L.balance[DeployerAddress][tok] >= DistributionAmount
        moved == [L EXCEPT !.balance[DeployerAddress][tok] = @ - DistributionAmount]
    IN  [(IF paid THEN [moved EXCEPT !.balance[to][tok] = @ + DistributionAmount]
                  ELSE L)
         EXCEPT !.tx_count[DeployerAddress] = @ + 1]

RECURSIVE DistributeInitialTokens(_, _, _)
DistributeInitialTokens(L, ags, k) ==
    IF k > Len(ags) THEN L
    ELSE DistributeInitialTokens(
             Transfer(Transfer(L, ags[k].address, "A"), ags[k].address, "B"),
             ags, k + 1)

(***************************************************************************)
(* MetricsCalculator                                                       *)
(***************************************************************************)
\* get_current_market_state: the pool's reserves and price at the time of the call
GetCurrentMarketState(L) ==
    [reserve |-> L.reserve, price |-> <<L.reserve["A"], L.reserve["B"]>>]

RECURSIVE CountActions(_)
CountActions(reports) ==
    IF reports = <<>> THEN 0
    ELSE Len(Head(reports).actions_taken) + CountActions(Tail(reports))

RECURSIVE TotalVolume(_)
TotalVolume(reports) ==
    IF reports = <<>> THEN 0
    ELSE SumSeq([k \in 1 .. Len(Head(reports).actions_taken) |->
                     IF "amount" \in DOMAIN Head(reports).actions_taken[k]
                     THEN Head(reports).actions_taken[k].amount ELSE 0])
         + TotalVolume(Tail(reports))

\* calculate_step_metrics(step, agent_actions, market_data)
CalculateStepMetrics(n, reports, md) ==
    [step |-> n, actions |-> CountActions(reports), volume |-> TotalVolume(reports),
     price |-> md.price]

\* calculate_overall_metrics(step_results)['simulation_steps']
SimulationSteps(results) == Len(results)

(***************************************************************************)
(* SimulationRunner.run_step, the body of `for agent in self.agents`:      *)
(* should_act, then step if it said so; an exception from either is logged *)
(* and the agent adds nothing to agent_actions.                            *)
(***************************************************************************)
Turn(a, L, ans) ==
    LET Stepped(sa, st) ==
            [agent |-> st.agent, ledger |-> st.ledger,
             asked |-> sa.agent,
             should_act |-> "true",
             stepped |-> TRUE, raised |-> st.raised,
             report |-> IF st.raised THEN <<>> ELSE <<st.report>>,
             observed |-> IF IsNone(st.observed) THEN sa.observed ELSE st.observed,
             mined |-> st.mined, failure |-> st.failure,
             business |-> st.business, faults |-> sa.faults + st.faults]
        Asked(sa) ==
            IF sa.raised \/ ~sa.result THEN
                [agent |-> sa.agent, ledger |-> [L EXCEPT !.submitted = <<>>],
                 asked |-> sa.agent,
                 should_act |-> IF sa.raised THEN "raised" ELSE "false",
                 stepped |-> FALSE, raised |-> sa.raised, report |-> <<>>,
                 observed |-> sa.observed, mined |-> FALSE, failure |-> "",
                 business |-> FALSE, faults |-> sa.faults]
            ELSE Stepped(sa, Step(sa.agent, [L EXCEPT !.submitted = <<>>], ans))
    IN  Asked(ShouldAct(a, L, ans))

\* a loop that an agent's exception would end
NextAgentStopping(index, raised) == IF raised THEN Len(agents) + 1 ELSE index + 1

\* a history that keeps the latest record only
ReplaceStepResult(results, record) == <<record>>

\* a history that grows at its head
PrependStepResult(results, record) == <<record>> \o results

\* self.step_results.append(step_result)
AppendStepResult(results, record) == Append(results, record)

\* the loop goes on to the next agent, whether or not this one raised
NextAgent(index, raised) == index + 1

\* what the history of the tick in flight keeps of one agent's turn; `changed`
\* are the fields of the agent that should_act left with another value, and
\* `submitted` the operations handed to the chain during the turn
TurnHistory(index, t) ==
    [agent |-> index, should_act |-> t.should_act, stepped |-> t.stepped,
     raised |-> t.raised, report |-> t.report, observed |-> t.observed,
     mined |-> t.mined, failure |-> t.failure, business |-> t.business,
     changed |-> {f \in DOMAIN t.asked : t.asked[f] # agents[index][f]},
     submitted |-> t.ledger.submitted]

(***************************************************************************)
(* Initial states: a runner just constructed from a configuration, on a    *)
(* chain with the contracts deployed.                                      *)
(***************************************************************************)
\* longest config['agents'] considered
MaxAgents == 3

\* An entry of config['agents'] after the agent_config.get(...) calls of
\* _setup_agents and the defaults of the constructors; fractions are in percent.
AgentConfig(type, trade_frequency, lookback_periods, momentum_threshold) ==
    [type |-> type, trade_frequency |-> trade_frequency,
     lookback_periods |-> lookback_periods,
     momentum_threshold |-> momentum_threshold,
     min_profit_threshold |-> 1]

RandomTraderConfig(trade_frequency) == AgentConfig("random_trader", trade_frequency, 5, 2)
\* a type _setup_agents does not know
UnknownConfig == AgentConfig("liquidator", Some(50), 5, 2)

\* the entry most agents of a configuration are built from
UsualConfig == RandomTraderConfig(Some(50))

\* longest lookback_periods considered
MaxLookback == 2

\* MomentumTrader is built with its default trade_frequency, 0.2
MomentumConfig(lookback_periods) ==
    AgentConfig("momentum_trader", Some(20), lookback_periods, 2)
\* ArbitrageTrader (its trade_frequency is never read)
ArbitrageConfig(min_profit_threshold) ==
    [AgentConfig("arbitrage_trader", Some(50), 5, 2)
        EXCEPT !.min_profit_threshold = min_profit_threshold]
\* MarketMaker (it reads none of these)
MarketMakerConfig == AgentConfig("market_maker", Some(50), 5, 2)

\* the strategies other than the random trader: momentum traders of every
\* lookback, an arbitrage trader with the default threshold and one that
\* accepts a loss of half the amount, a market maker
StrategySpecs ==
    {MomentumConfig(n) : n \in 0 .. MaxLookback}
    \cup {ArbitrageConfig(1), ArbitrageConfig(0 - 50), MarketMakerConfig}

\* one of them between two random traders
StrategyLists == {<<UsualConfig, x, UsualConfig>> : x \in StrategySpecs}

StrategyConfigs ==
    [max_steps : 0 .. MaxSteps, random_seed : {47}, agents : StrategyLists]

AgentSpecs ==
    {UsualConfig, RandomTraderConfig(None), UnknownConfig}

\* the configurations considered: random traders, at most one entry of them unusual
AgentLists ==
    {l \in UNION {[1 .. n -> AgentSpecs] : n \in 1 .. MaxAgents} :
        Cardinality({k \in DOMAIN l : l[k] # UsualConfig}) <= 1}

Configs ==
    [max_steps : 0 .. MaxSteps, random_seed : {42, 47}, agents : AgentLists]

\* the chain with the contracts deployed: the pool holding `r`, the deployer
\* holding `d` of each token, nothing sent yet
NewLedger(r, d) ==
    [reserve   |-> r,
     balance   |-> [addr \in Addresses |->
                      IF addr = DeployerAddress THEN [A |-> d, B |-> d]
                      ELSE [A |-> 0, B |-> 0]],
     tx_count  |-> [addr \in Addresses |-> 0],
     lp        |-> [addr \in Addresses |->
                      IF addr = DeployerAddress THEN r["A"] ELSE 0],
     lp_supply |-> r["A"],
     submitted |-> <<>>]

\* a pool with liquidity and a deployer who holds enough for everybody or too
\* little to distribute; a pool still empty
Ledgers ==
    {NewLedger([A |-> 20000, B |-> 40000], (MaxAgents + 1) * DistributionAmount),
     NewLedger([A |-> 20000, B |-> 40000], 5000),
     NewLedger([A |-> 0, B |-> 0], (MaxAgents + 1) * DistributionAmount)}

NoTick == [step |-> 0 - 1, snapshot |-> "none", turns |-> <<>>]
NoCall == [fn |-> "none"]

\* SimulationRunner.__init__ for the configuration `cfg` on the chain `L`,
\* `first` and `second` the agent lists of the run and of its twin
Constructed(cfg, L, first, second) ==
    /\ config = cfg
    /\ agents = first
    /\ ledger = L
    /\ pc = "init"
    /\ step = 0
    /\ current_step = 0
    /\ market_data = GetCurrentMarketState(L)
    /\ agent_index = 1
    /\ agent_actions = <<>>
    /\ step_results = <<>>
    /\ simulation_results = None
    /\ interrupted = FALSE
    /\ faults = 0
    /\ tick = NoTick
    /\ twin = [random |-> [k \in 1 .. Len(second) |-> second[k].random],
               decisions |-> <<>>, agent_actions |-> <<>>,
               step_results |-> <<>>]
    /\ call = NoCall

Init ==
    \E cfg \in Configs, L \in Ledgers :
      \E first \in SetupAgents(cfg, L, 0), second \in SetupAgents(cfg, L, 0) :
        Constructed(cfg, L, first, second)

\* the runs of the other strategies
StrategyInit ==
    \E cfg \in StrategyConfigs, L \in Ledgers :
      \E first \in SetupAgents(cfg, L, 0), second \in SetupAgents(cfg, L, 0) :
        Constructed(cfg, L, first, second)

max_steps == config.max_steps

(***************************************************************************)
(* SimulationRunner.run_simulation                                         *)
(***************************************************************************)
\* run_simulation up to the loop: _distribute_initial_tokens
RunSimulation ==
    /\ pc = "init"
    /\ ledger' = DistributeInitialTokens(ledger, agents, 1)
    /\ pc' = "for"
    /\ step' = 0
    /\ UNCHANGED <<config, agents, current_step, market_data, agent_index,
                   agent_actions, step_results, simulation_results, interrupted,
                   faults, tick, twin, call>>

\* the loop takes its next value; run_step starts and reads the market state.
\* A failed read raises out of run_step, and run_simulation re-raises it.
BeginStep ==
    /\ pc = "for" /\ step < max_steps
    /\ current_step' = step
    /\ \E read_ok \in BOOLEAN :
         /\ read_ok \/ faults < MaxFaults
         /\ faults' = IF read_ok THEN faults ELSE faults + 1
         /\ pc' = IF read_ok THEN "agents" ELSE "failed"
         /\ market_data' = IF read_ok THEN GetCurrentMarketState(ledger) ELSE market_data
         /\ tick' = [step |-> step, snapshot |-> IF read_ok THEN "read" ELSE "failed",
                     turns |-> <<>>]
    /\ agent_index' = 1
    /\ agent_actions' = <<>>
    /\ twin' = [twin EXCEPT !.decisions = <<>>, !.agent_actions = <<>>]
    /\ UNCHANGED <<config, agents, ledger, step, step_results, simulation_results,
                   interrupted, call>>

\* one pass of `for agent in self.agents`
AgentTurn ==
    /\ pc = "agents" /\ agent_index <= Len(agents)
    /\ \E ans \in Answers(MaxFaults - faults, agents[agent_index].agent_type) :
         LET Done(t, t2) ==
                 /\ t.faults = FaultsIn(ans)   \* every failure answered was met
                 /\ faults' = faults + t.faults
                 /\ agents' = [agents EXCEPT ![agent_index] = t.agent]
                 /\ ledger' = t.ledger
                 /\ agent_actions' = agent_actions \o t.report
                 /\ agent_index' = NextAgent(agent_index, t.raised)
                 /\ tick' = [tick EXCEPT !.turns = Append(@, TurnHistory(agent_index, t))]
                 /\ twin' = [twin EXCEPT !.random[agent_index] = t2.agent.random,
                                         !.decisions = Append(@, t2.should_act),
                                         !.agent_actions = @ \o t2.report]
         IN  Done(Turn(agents[agent_index], ledger, ans),
                  Turn([agents[agent_index] EXCEPT !.random = twin.random[agent_index]],
                       ledger, ans))
    /\ UNCHANGED <<config, pc, step, current_step, market_data, step_results,
                   simulation_results, interrupted, call>>

\* the rest of run_step after the agents: the step metrics, every agent's
\* performance statistics and the block number (reads of the chain that raise
\* when they fail), then the record is appended; back in run_simulation the
\* loop sleeps and moves on
FinishStep ==
    /\ pc = "agents" /\ agent_index > Len(agents)
    /\ \E read_ok \in BOOLEAN :
         /\ read_ok \/ faults < MaxFaults
         /\ faults' = IF read_ok THEN faults ELSE faults + 1
         /\ pc' = IF read_ok THEN "for" ELSE "failed"
         /\ step' = IF read_ok THEN step + 1 ELSE step
         /\ step_results' =
              IF read_ok
              THEN AppendStepResult(step_results,
                     [step |-> current_step,
                      market_data |-> market_data,
                      agent_actions |-> agent_actions,
                      step_metrics |-> CalculateStepMetrics(current_step, agent_actions,
                                                            market_data),
                      agent_performance |-> AgentPerformance(agents)])
              ELSE step_results
         /\ twin' =
              IF read_ok
              THEN [twin EXCEPT !.step_results = Append(@,
                     [agent_actions |-> twin.agent_actions,
                      step_metrics |-> CalculateStepMetrics(current_step,
                                            twin.agent_actions, market_data)])]
              ELSE twin
    /\ UNCHANGED <<config, agents, ledger, current_step, market_data, agent_index,
                   agent_actions, simulation_results, interrupted, tick, call>>

\* range(max_steps) is exhausted
EndLoop ==
    /\ pc = "for" /\ step >= max_steps
    /\ pc' = "report"
    /\ UNCHANGED <<config, agents, ledger, step, current_step, market_data,
                   agent_index, agent_actions, step_results, simulation_results,
                   interrupted, faults, tick, twin, call>>

\* a KeyboardInterrupt arrives while the loop runs; `except KeyboardInterrupt`
\* of run_simulation takes over wherever the tick stands
KeyboardInterrupt ==
    /\ pc \in {"for", "agents"}
    /\ pc' = "report"
    /\ interrupted' = TRUE
    /\ UNCHANGED <<config, agents, ledger, step, current_step, market_data,
                   agent_index, agent_actions, step_results, simulation_results,
                   faults, tick, twin, call>>

\* SimulationRunner._generate_final_report; get_performance_stats reads the
\* chain and raises when the read fails
GenerateFinalReport ==
    /\ pc = "report"
    /\ \E read_ok \in BOOLEAN :
         /\ read_ok \/ faults < MaxFaults
         /\ faults' = IF read_ok THEN faults ELSE faults + 1
         /\ pc' = IF read_ok THEN "done" ELSE "failed"
         /\ simulation_results' =
              IF read_ok
              THEN Some([execution_summary |->
                           [total_steps |-> current_step + 1,
                            total_transactions |->
                               SumSeq([k \in 1 .. Len(agents) |->
                                          agents[k].transaction_count]),
                            total_gas_used |->
                               SumSeq([k \in 1 .. Len(agents) |->
                                          agents[k].total_gas_used])],
                         overall_metrics |->
                           [simulation_steps |-> SimulationSteps(step_results)],
                         final_agent_performance |-> AgentPerformance(agents)])
              ELSE simulation_results
    /\ UNCHANGED <<config, agents, ledger, step, current_step, market_data,
                   agent_index, agent_actions, step_results, interrupted, tick, twin, call>>

Next ==
    \/ RunSimulation
    \/ BeginStep
    \/ AgentTurn
    \/ FinishStep
    \/ EndLoop
    \/ KeyboardInterrupt
    \/ GenerateFinalReport

Spec == Init /\ [][Next]_vars

StrategySpec == StrategyInit /\ [][Next]_vars

(***************************************************************************)
(* Single calls of the traders' functions, on arguments from bounded sets. *)
(***************************************************************************)
\* longest price history handed to calculate_momentum
MaxHistory == 5
\* largest pool reserve handed to get_pool_price
MaxReserve == 3

\* the prices 0, 1, 0.5 and 1.3
Prices == {Fraction(0, 1), Fraction(1, 1), Fraction(1, 2), Fraction(13, 10)}
Histories == UNION {[1 .. n -> Prices] : n \in 0 .. MaxHistory}

\* a pool holding `reserve_a` and `reserve_b`, nobody else holding anything
PoolOf(reserve_a, reserve_b) == NewLedger([A |-> reserve_a, B |-> reserve_b], 0)

\* a momentum trader whose price history is `price_history`
MomentumTraderOf(price_history, lookback_periods, rnd) ==
    [NewAgent(MomentumConfig(lookback_periods), 1, PoolOf(0, 0), rnd)
        EXCEPT !.price_history = price_history]

\* no run: a runner without agents, standing by while the calls are made
CallInit ==
    /\ config = [max_steps |-> 0, random_seed |-> 42, agents |-> <<>>]
    /\ agents = <<>>
    /\ ledger = PoolOf(0, 0)
    /\ pc = "call"
    /\ step = 0
    /\ current_step = 0
    /\ market_data = GetCurrentMarketState(PoolOf(0, 0))
    /\ agent_index = 1
    /\ agent_actions = <<>>
    /\ step_results = <<>>
    /\ simulation_results = None
    /\ interrupted = FALSE
    /\ faults = 0
    /\ tick = NoTick
    /\ twin = [random |-> <<>>, decisions |-> <<>>, agent_actions |-> <<>>,
               step_results |-> <<>>]
    /\ call = NoCall

\* one call of Trader.get_pool_price
CallGetPoolPrice ==
    /\ pc = "call" /\ call = NoCall
    /\ \E reserve_a \in 0 .. MaxReserve, reserve_b \in 0 .. MaxReserve,
          read_ok \in BOOLEAN :
         call' = [fn |-> "get_pool_price", reserve_a |-> reserve_a,
                  reserve_b |-> reserve_b, read_ok |-> read_ok,
                  result |-> GetPoolPrice(PoolOf(reserve_a, reserve_b), read_ok)]
    /\ UNCHANGED <<config, agents, ledger, pc, step, current_step, market_data,
                   agent_index, agent_actions, step_results, simulation_results,
                   interrupted, faults, tick, twin>>

\* one call of MomentumTrader.calculate_momentum
CallCalculateMomentum ==
    /\ pc = "call" /\ call = NoCall
    /\ \E price_history \in Histories, lookback_periods \in 0 .. MaxHistory :
         call' = [fn |-> "calculate_momentum", price_history |-> price_history,
                  lookback_periods |-> lookback_periods,
                  result |-> CalculateMomentum(price_history, lookback_periods)]
    /\ UNCHANGED <<config, agents, ledger, pc, step, current_step, market_data,
                   agent_index, agent_actions, step_results, simulation_results,
                   interrupted, faults, tick, twin>>

\* one call of MomentumTrader.should_act
CallShouldAct ==
    /\ pc = "call" /\ call = NoCall
    /\ \E price_history \in {h \in Histories : Len(h) <= MaxLookback + 1},
          lookback_periods \in 0 .. MaxLookback, rnd \in 0 .. (RngMod - 1),
          reserve_a \in 0 .. MaxReserve, reserve_b \in 0 .. MaxReserve,
          read_ok \in BOOLEAN :
         call' = [fn |-> "should_act",
                  agent |-> MomentumTraderOf(price_history, lookback_periods, rnd),
                  result |-> MomentumTraderShouldAct(
                                 MomentumTraderOf(price_history, lookback_periods, rnd),
                                 PoolOf(reserve_a, reserve_b),
                                 AnswersFailing(IF read_ok THEN {} ELSE {"price"},
                                                "timeout"))]
    /\ UNCHANGED <<config, agents, ledger, pc, step, current_step, market_data,
                   agent_index, agent_actions, step_results, simulation_results,
                   interrupted, faults, tick, twin>>

\* largest amount handed to a single call
MaxAmount == 12

\* one call of Trader.calculate_swap_output, and a second one on the same pool
\* with an amount at least as large.  The function catches every exception,
\* so no call raises.
CallCalculateSwapOutput ==
    /\ pc = "call" /\ call = NoCall
    /\ \E reserve_a \in 0 .. MaxReserve, reserve_b \in 0 .. MaxReserve,
          token_in \in Tokens, amount_in \in 0 .. MaxAmount,
          more \in 0 .. MaxAmount, read_ok \in BOOLEAN :
         /\ amount_in <= more
         /\ call' = [fn |-> "calculate_swap_output",
                     reserve_a |-> reserve_a, reserve_b |-> reserve_b,
                     token_in |-> token_in, amount_in |-> amount_in,
                     more |-> more, read_ok |-> read_ok, raised |-> FALSE,
                     result |-> CalculateSwapOutput(PoolOf(reserve_a, reserve_b),
                                                    amount_in, token_in, read_ok),
                     result_more |-> CalculateSwapOutput(PoolOf(reserve_a, reserve_b),
                                                         more, token_in, read_ok)]
    /\ UNCHANGED <<config, agents, ledger, pc, step, current_step, market_data,
                   agent_index, agent_actions, step_results, simulation_results,
                   interrupted, faults, tick, twin>>

\* the reserves a market maker may have recorded at its first deposit
InitialReserves ==
    {None} \cup {Some([A |-> x, B |-> y]) : x \in 0 .. MaxReserve, y \in 0 .. MaxReserve}

\* a market maker that recorded `initial_reserves`, holding `lp` of the pool's
\* token
MarketMakerOf(initial_reserves, lp) ==
    [NewAgent(MarketMakerConfig, 1, PoolOf(0, 0), 0)
        EXCEPT !.initial_reserves = initial_reserves, !.lp_token_balance = lp]

\* one call of MarketMaker.calculate_impermanent_loss
CallCalculateImpermanentLoss ==
    /\ pc = "call" /\ call = NoCall
    /\ \E initial_reserves \in InitialReserves,
          reserve_a \in 0 .. MaxReserve, reserve_b \in 0 .. MaxReserve,
          read_ok \in BOOLEAN :
         call' = [fn |-> "calculate_impermanent_loss",
                  initial_reserves |-> initial_reserves,
                  reserve_a |-> reserve_a, reserve_b |-> reserve_b,
                  read_ok |-> read_ok,
                  result |-> CalculateImpermanentLoss(
                                 MarketMakerOf(initial_reserves, 0),
                                 PoolOf(reserve_a, reserve_b), read_ok)]
    /\ UNCHANGED <<config, agents, ledger, pc, step, current_step, market_data,
                   agent_index, agent_actions, step_results, simulation_results,
                   interrupted, faults, tick, twin>>

\* the balances a market maker may have of a token
Available == (0 .. MaxAmount) \cup {1000, 3000}

\* one call of MarketMaker.calculate_optimal_liquidity_amounts
CallCalculateOptimalLiquidityAmounts ==
    /\ pc = "call" /\ call = NoCall
    /\ \E available_a \in Available, available_b \in Available,
          reserve_a \in 0 .. MaxReserve, reserve_b \in 0 .. MaxReserve,
          read_ok \in BOOLEAN :
         LET Called(r) ==
               call' = [fn |-> "calculate_optimal_liquidity_amounts",
                        available_a |-> available_a, available_b |-> available_b,
                        reserve_a |-> reserve_a, reserve_b |-> reserve_b,
                        read_ok |-> read_ok,
                        branch |-> IF r["A"] = 0 \/ r["B"] = 0 THEN "initial"
                                   ELSE PoolRatioBranch(available_a, available_b, r),
                        result |-> CalculateOptimalLiquidityAmounts(
                                       available_a, available_b, r)]
         IN  Called(GetPoolReserves(PoolOf(reserve_a, reserve_b), read_ok))
    /\ UNCHANGED <<config, agents, ledger, pc, step, current_step, market_data,
                   agent_index, agent_actions, step_results, simulation_results,
                   interrupted, faults, tick, twin>>

\* the chain `L` with the address `addr` holding the given balances of the
\* tokens and `lp` of the pool's token
WithHoldings(L, addr, balance_a, balance_b, lp) ==
    [L EXCEPT !.balance[addr] = [A |-> balance_a, B |-> balance_b],
              !.lp[addr] = lp,
              !.lp_supply = @ + lp]

\* one call of MarketMaker.step, the chain failing at most MaxFaults times
CallMarketMakerStep ==
    /\ pc = "call" /\ call = NoCall
    /\ \E reserve_a \in 0 .. MaxReserve, reserve_b \in 0 .. MaxReserve,
          balance_a \in {0, MaxAmount}, balance_b \in {0, MaxAmount},
          lp \in {0, 1, 5, 10, MaxAmount},
          ans \in Answers(MaxFaults, "market_maker") :
         LET a == MarketMakerOf(None, lp)
             L == WithHoldings(PoolOf(reserve_a, reserve_b), a.address,
                               balance_a, balance_b, lp)
         IN  call' = [fn |-> "market_maker_step", agent |-> a, ledger |-> L,
                      ans |-> ans, result |-> MarketMakerStep(a, L, ans)]
    /\ UNCHANGED <<config, agents, ledger, pc, step, current_step, market_data,
                   agent_index, agent_actions, step_results, simulation_results,
                   interrupted, faults, tick, twin>>

\* one call of MarketMaker.should_rebalance
CallShouldRebalance ==
    /\ pc = "call" /\ call = NoCall
    /\ \E current_a \in 0 .. MaxAmount, current_b \in 0 .. MaxAmount,
          reserves_read \in BOOLEAN :
         call' = [fn |-> "should_rebalance",
                  current_a |-> current_a, current_b |-> current_b,
                  reserves_read |-> reserves_read,
                  result |-> ShouldRebalance(
                                 GetPoolReserves(PoolOf(current_a, current_b),
                                                 reserves_read))]
    /\ UNCHANGED <<config, agents, ledger, pc, step, current_step, market_data,
                   agent_index, agent_actions, step_results, simulation_results,
                   interrupted, faults, tick, twin>>

\* one call of MomentumTrader.step, the chain failing at most MaxFaults times
CallMomentumTraderStep ==
    /\ pc = "call" /\ call = NoCall
    /\ \E price_history \in {h \in Histories : Len(h) <= 2},
          lookback_periods \in 0 .. 2, momentum_threshold \in {2, 40},
          balance_a \in {min_trade_size, DistributionAmount},
          balance_b \in {min_trade_size, DistributionAmount},
          reserve \in {0, MaxReserve}, ans \in Answers(MaxFaults, "momentum_trader") :
         LET a == [MomentumTraderOf(price_history, lookback_periods, 0)
                      EXCEPT !.momentum_threshold = momentum_threshold]
             L == WithHoldings(PoolOf(reserve, reserve), a.address,
                               balance_a, balance_b, 0)
         IN  call' = [fn |-> "momentum_trader_step", agent |-> a, ledger |-> L,
                      ans |-> ans, result |-> MomentumTraderStep(a, L, ans)]
    /\ UNCHANGED <<config, agents, ledger, pc, step, current_step, market_data,
                   agent_index, agent_actions, step_results, simulation_results,
                   interrupted, faults, tick, twin>>

\* an arbitrage trader asking for a profit above `min_profit_threshold`
ArbitrageTraderOf(min_profit_threshold) ==
    NewAgent(ArbitrageConfig(min_profit_threshold), 1, PoolOf(0, 0), 0)

\* the pools the arbitrage trader is called on: each reserve none, small,
\* large or larger
ArbitragePools ==
    {PoolOf(reserve_a, reserve_b) :
        reserve_a \in {0, MaxReserve, DistributionAmount, 2 * DistributionAmount},
        reserve_b \in {0, MaxReserve, DistributionAmount, 2 * DistributionAmount}}

\* one call of ArbitrageTrader.should_act, the chain failing at most MaxFaults
\* times
CallArbitrageTraderShouldAct ==
    /\ pc = "call" /\ call = NoCall
    /\ \E min_profit_threshold \in {0, 1, 0 - 90}, pool \in ArbitragePools,
          balance_a \in {min_trade_size, DistributionAmount},
          balance_b \in {0, DistributionAmount},
          ans \in Answers(MaxFaults, "arbitrage_trader") :
         LET a == ArbitrageTraderOf(min_profit_threshold)
             L == WithHoldings(pool, a.address, balance_a, balance_b, 0)
         IN  call' = [fn |-> "arbitrage_trader_should_act", agent |-> a,
                      ledger |-> L, ans |-> ans,
                      result |-> ArbitrageTraderShouldAct(a, L, ans)]
    /\ UNCHANGED <<config, agents, ledger, pc, step, current_step, market_data,
                   agent_index, agent_actions, step_results, simulation_results,
                   interrupted, faults, tick, twin>>

\* one call of ArbitrageTrader.step, the chain failing at most MaxFaults times
CallArbitrageTraderStep ==
    /\ pc = "call" /\ call = NoCall
    /\ \E min_profit_threshold \in {0, 1, 0 - 90}, pool \in ArbitragePools,
          balance_a \in {min_trade_size, DistributionAmount},
          balance_b \in {0, DistributionAmount},
          ans \in Answers(MaxFaults, "arbitrage_trader") :
         LET a == ArbitrageTraderOf(min_profit_threshold)
             L == WithHoldings(pool, a.address, balance_a, balance_b, 0)
         IN  call' = [fn |-> "arbitrage_trader_step", agent |-> a,
                      ledger |-> L, ans |-> ans,
                      result |-> ArbitrageTraderStep(a, L, ans)]
    /\ UNCHANGED <<config, agents, ledger, pc, step, current_step, market_data,
                   agent_index, agent_actions, step_results, simulation_results,
                   interrupted, faults, tick, twin>>

\* a random trader whose generator stands at `rnd`
RandomTraderOf(rnd) ==
    NewAgent(RandomTraderConfig(Some(50)), 1, PoolOf(0, 0), rnd)

\* balances at, above and well above min_trade_size: the largest trade allowed
\* of the second is below min_trade_size, of the third just above it
TraderBalances ==
    {min_trade_size, 5 * min_trade_size, 10 * min_trade_size + 10,
     DistributionAmount}

\* the pools the random trader is called on: empty, shallow and deep
TraderPools ==
    {PoolOf(0, 0), PoolOf(MaxReserve, MaxReserve),
     PoolOf(DistributionAmount, 2 * DistributionAmount)}

\* one call of RandomTrader.step, the chain failing at most MaxFaults times
CallRandomTraderStep ==
    /\ pc = "call" /\ call = NoCall
    /\ \E rnd \in 0 .. (RngMod - 1), pool \in TraderPools,
          balance_a \in TraderBalances, balance_b \in TraderBalances,
          ans \in Answers(MaxFaults, "random_trader") :
         LET a == RandomTraderOf(rnd)
             L == WithHoldings(pool, a.address, balance_a, balance_b, 0)
         IN  call' = [fn |-> "random_trader_step", agent |-> a, ledger |-> L,
                      ans |-> ans, result |-> RandomTraderStep(a, L, ans)]
    /\ UNCHANGED <<config, agents, ledger, pc, step, current_step, market_data,
                   agent_index, agent_actions, step_results, simulation_results,
                   interrupted, faults, tick, twin>>

CallNext ==
    \/ CallGetPoolPrice
    \/ CallCalculateMomentum
    \/ CallShouldAct
    \/ CallCalculateSwapOutput
    \/ CallCalculateImpermanentLoss
    \/ CallCalculateOptimalLiquidityAmounts
    \/ CallMarketMakerStep
    \/ CallShouldRebalance
    \/ CallMomentumTraderStep
    \/ CallArbitrageTraderShouldAct
    \/ CallArbitrageTraderStep
    \/ CallRandomTraderStep

CallSpec == CallInit /\ [][CallNext]_vars

(***************************************************************************)
(* Properties                                                              *)
(***************************************************************************)
\* run_step has appended the record of the tick in flight
TickRecorded ==
    step_results # <<>> /\ step_results[Len(step_results)].step = tick.step
TickRecord == step_results[Len(step_results)]

Turns == 1 .. Len(tick.turns)

\* the reports of the turns, in the order of the turns
RECURSIVE Reports(_)
Reports(turns) ==
    IF turns = <<>> THEN <<>> ELSE Head(turns).report \o Reports(Tail(turns))

\* C1: fault isolation.  In the record of a tick, every agent whose should_act
\* or step raised has a report with a non-empty error field, and every other
\* agent that acted has its report.
C1_FaultIsolation ==
    TickRecorded =>
        \A k \in Turns :
            /\ tick.turns[k].raised =>
                  \E n \in 1 .. Len(TickRecord.agent_actions) :
                      /\ TickRecord.agent_actions[n].agent_id = agents[k].agent_id
                      /\ TickRecord.agent_actions[n].error # ""
            /\ (tick.turns[k].stepped /\ ~tick.turns[k].raised) =>
                  \E n \in 1 .. Len(TickRecord.agent_actions) :
                      TickRecord.agent_actions[n].agent_id = agents[k].agent_id

\* C2: when the chain rejects or times out a submission made inside step, step
\* does not raise and its report carries a non-empty error field.
C2_LedgerFailureReported ==
    \A k \in Turns :
        tick.turns[k].failure \in {"rejected", "timeout"} =>
            /\ ~tick.turns[k].raised
            /\ tick.turns[k].report # <<>>
            /\ tick.turns[k].report[1].error # ""

\* C3: a business-logic failure in step (nothing tradeable, or the largest
\* allowed trade below min_trade_size) is reported with no action and no error.
C3_BusinessFailureNotError ==
    \A k \in Turns :
        tick.turns[k].business =>
            /\ tick.turns[k].report # <<>>
            /\ tick.turns[k].report[1].actions_taken = <<>>
            /\ tick.turns[k].report[1].error = ""

\* C4: a run that ends without interrupt or fatal error has appended max_steps
\* records and reports total_steps = max_steps.
C4_TotalStepsIsMaxSteps ==
    (pc = "done" /\ ~interrupted) =>
        /\ Len(step_results) = max_steps
        /\ simulation_results[1].execution_summary.total_steps = max_steps
        /\ simulation_results[1].execution_summary.total_steps = Len(step_results)

\* C5: after an interrupt, a tick in which an agent's transaction was mined has
\* its record in step_results.
C5_NoHalfAppliedTick ==
    (interrupted /\ \E k \in Turns : tick.turns[k].mined) => TickRecorded

\* C6: a run that has ended has produced its final report.
C6_AlwaysFinalReport ==
    pc \in {"done", "failed"} => ~IsNone(simulation_results)

\* C7: a failed market-state read at the start of a tick does not abort the run.
C7_SnapshotFailureSkipsTick ==
    tick.snapshot = "failed" => pc # "failed"

\* C8: the pool reserves an agent reads during a tick are those of the market
\* state read at the start of the tick.
C8_OneSnapshotPerTick ==
    tick.snapshot = "read" =>
        \A k \in Turns :
            IsNone(tick.turns[k].observed)
            \/ tick.turns[k].observed = Some(market_data.reserve)

\* C9: in every tick the agents get their turns once each, in registration
\* order, also after an earlier agent raised; step is invoked only when
\* should_act returned true and reports at most once; the reports of the
\* record are those of the turns, in registration order.
C9_RegistrationOrder ==
    /\ Len(tick.turns) <= Len(agents)
    /\ pc = "agents" => Len(tick.turns) = agent_index - 1
    /\ \A k \in Turns :
          /\ tick.turns[k].agent = k
          /\ tick.turns[k].stepped <=> tick.turns[k].should_act = "true"
          /\ Len(tick.turns[k].report) <= 1
          /\ tick.turns[k].report # <<>> => tick.turns[k].stepped
    /\ agent_actions = Reports(tick.turns)
    /\ TickRecorded =>
          /\ Len(tick.turns) = Len(agents)
          /\ TickRecord.agent_actions = Reports(tick.turns)
          /\ \A m, n \in 1 .. Len(TickRecord.agent_actions) :
                m < n => TickRecord.agent_actions[m].agent_id[2]
                           < TickRecord.agent_actions[n].agent_id[2]

\* a recorded tick in which an agent's should_act raised, a later agent stepped
\* and two agents reported
C9_Witness ==
    /\ TickRecorded
    /\ Len(TickRecord.agent_actions) >= 2
    /\ \E j, k \in Turns :
          j < k /\ tick.turns[j].should_act = "raised" /\ tick.turns[k].stepped

\* C10: determinism.  The second run of the same configuration, the chain
\* answering the same, has the same generator states, takes the same
\* decisions, and produces the same reports and the same step metrics.
C10_Determinism ==
    /\ \A k \in 1 .. Len(agents) : twin.random[k] = agents[k].random
    /\ twin.decisions = [k \in Turns |-> tick.turns[k].should_act]
    /\ twin.agent_actions = agent_actions
    /\ Len(twin.step_results) = Len(step_results)
    /\ \A n \in 1 .. Len(step_results) :
          /\ twin.step_results[n].agent_actions = step_results[n].agent_actions
          /\ twin.step_results[n].step_metrics = step_results[n].step_metrics

\* a finished run of two ticks in which an agent traded and another declined
C10_Witness ==
    /\ pc = "done" /\ Len(step_results) = 2
    /\ \E n \in 1 .. 2 : step_results[n].step_metrics.actions > 0
    /\ \E k \in Turns : tick.turns[k].should_act = "false"

\* C11: a configuration with a malformed agent entry never gets to run: once
\* run_simulation has started, the runner holds one agent per configured entry.
C11_MalformedSpecFatal ==
    pc # "init" =>
        /\ \A k \in DOMAIN config.agents : config.agents[k].type \in KnownTypes
        /\ Len(agents) = Len(config.agents)

\* C12: distinct agents have distinct ledger identities, none of them the
\* deployer's, and the deployer's transfers leave every agent's nonce current.
C12_NoSharedIdentity ==
    /\ \A j, k \in 1 .. Len(agents) :
          j # k => agents[j].address # agents[k].address
    /\ \A k \in 1 .. Len(agents) :
          /\ agents[k].address # DeployerAddress
          /\ pc = "for" /\ step = 0 =>
                agents[k].nonce = ledger.tx_count[agents[k].address]

\* the performance map `perf` has one entry per registered agent, under its
\* id, with a transaction count that is not negative
OnePerAgent(perf) ==
    /\ Cardinality(DOMAIN perf) = Len(agents)
    /\ \A k \in 1 .. Len(agents) :
          /\ agents[k].agent_id \in DOMAIN perf
          /\ perf[agents[k].agent_id].agent_id = agents[k].agent_id
          /\ perf[agents[k].agent_id].transaction_count >= 0

\* C13: the per-agent performance map of every tick record and of the final
\* report has exactly one entry per registered agent, keyed by its agent id,
\* with a non-negative transaction_count.
C13_PerformancePerAgent ==
    /\ \A n \in 1 .. Len(step_results) : OnePerAgent(step_results[n].agent_performance)
    /\ pc = "done" => OnePerAgent(simulation_results[1].final_agent_performance)

\* a finished run of three agents, one of which had a transaction mined
C13_Witness ==
    /\ pc = "done" /\ Len(agents) = 3 /\ step_results # <<>>
    /\ \E k \in 1 .. Len(agents) :
          simulation_results[1].final_agent_performance[agents[k].agent_id]
              .transaction_count > 0

\* C14: every completed run_step leaves one record, and simulation_steps of
\* the overall metrics is the number of records.
C14_SimulationSteps ==
    /\ Len(step_results) = step
    /\ pc = "done" =>
          simulation_results[1].overall_metrics.simulation_steps = Len(step_results)

\* a finished run whose overall metrics count two ticks
C14_Witness ==
    pc = "done" /\ simulation_results[1].overall_metrics.simulation_steps = 2

\* the k-th record carries step index k - 1
StepsInOrder == \A k \in 1 .. Len(step_results) : step_results[k].step = k - 1

\* a step of the run keeps every record the history holds
HistoryKept ==
    /\ Len(step_results') >= Len(step_results)
    /\ SubSeq(step_results', 1, Len(step_results)) = step_results

\* C15: the run history is append-only and ordered: the k-th record has step
\* index k - 1, and no step of the run removes or changes a record.
C15_AppendOnlyHistory == []StepsInOrder /\ [][HistoryKept]_vars

\* two ticks recorded, the run still going
C15_Witness == Len(step_results) = 2 /\ pc = "for"

\* C16: should_act leaves the agent as it found it, but for the momentum
\* trader's price history and the agent's generator: the nonce, the counters,
\* the trade history and every other field are those of before the call.
C16_ShouldActFrame ==
    \A k \in Turns : tick.turns[k].changed \subseteq {"price_history", "random"}

\* C17: no retry.  Of the operations an agent hands to the chain in its turn
\* of a tick no two are the same, and one that failed is the last.
C17_NoRetry ==
    \A k \in Turns :
        LET submitted == tick.turns[k].submitted
        IN  /\ \A i, j \in 1 .. Len(submitted) :
                  i < j => submitted[i].op # submitted[j].op
            /\ \A i \in 1 .. Len(submitted) :
                  submitted[i].failed => i = Len(submitted)

\* a deposit whose two approvals went through and whose addLiquidity failed,
\* and nothing submitted after it
C17_Witness ==
    \E k \in Turns :
        /\ Len(tick.turns[k].submitted) = 3
        /\ tick.turns[k].submitted[3].op.kind = "addLiquidity"
        /\ tick.turns[k].submitted[3].failed

\* C18: a momentum trader's price history holds at most 2 * lookback_periods
\* prices, whatever lookback_periods is.
C18_BoundedHistory ==
    \A k \in 1 .. Len(agents) :
        agents[k].agent_type = "momentum_trader" =>
            Len(agents[k].price_history) <= 2 * agents[k].lookback_periods

\* C19: calculate_momentum answers 0 for a history of fewer than
\* lookback_periods prices; otherwise, of the last lookback_periods prices, 0
\* when the oldest is 0 and (newest - oldest) / oldest when it is not.
\* should_act answers true whenever the momentum of the history it leaves is
\* beyond the threshold, whatever the generator would draw.
C19_Momentum ==
    /\ call.fn = "calculate_momentum" =>
          LET h == call.price_history
              n == call.lookback_periods
              oldest == h[Len(h) - n + 1]
              newest == h[Len(h)]
              m == call.result.value
          IN  /\ Len(h) < n => ~call.result.raised /\ m.num = 0
              /\ (n >= 1 /\ Len(h) >= n) =>
                    /\ ~call.result.raised
                    /\ oldest.num = 0 => m.num = 0
                    /\ oldest.num # 0 =>
                          m.num * (oldest.num * newest.den)
                            = (newest.num * oldest.den - oldest.num * newest.den) * m.den
    /\ call.fn = "should_act" =>
          LET after == call.result.agent
              m == CalculateMomentum(after.price_history, after.lookback_periods).value
          IN  (Above(m, after.momentum_threshold) \/ Below(m, after.momentum_threshold))
                  => call.result.result /\ ~call.result.raised

\* the history 1, 1, 1, 1, 1.3 with a lookback of 5: a momentum of 0.3
C19_Witness ==
    /\ call.fn = "calculate_momentum"
    /\ call.price_history = <<Fraction(1, 1), Fraction(1, 1), Fraction(1, 1),
                              Fraction(1, 1), Fraction(13, 10)>>
    /\ call.lookback_periods = 5
    /\ call.result.value.num * 10 = 3 * call.result.value.den

\* C20: get_pool_price answers 0 when reserve_b is 0, whatever reserve_a is,
\* and reserve_a / reserve_b when it is not; a read that fails is answered 0
\* as well, never by an error.
C20_PoolPrice ==
    call.fn = "get_pool_price" =>
        /\ call.result.den > 0
        /\ (call.read_ok /\ call.reserve_b = 0) => call.result.num = 0
        /\ (call.read_ok /\ call.reserve_b # 0) =>
              call.result.num * call.reserve_b = call.reserve_a * call.result.den
        /\ ~call.read_ok => call.result.num = 0

\* a pool with reserve_a but no reserve_b, and a pool with both
C20_Witness ==
    /\ call.fn = "get_pool_price" /\ call.read_ok
    /\ call.reserve_a = 3 /\ call.reserve_b = 0 /\ call.result.num = 0
\* the reserve a quote's input goes into, and the one its output comes from
QuoteReserveIn == IF call.token_in = "A" THEN call.reserve_a ELSE call.reserve_b
QuoteReserveOut == IF call.token_in = "A" THEN call.reserve_b ELSE call.reserve_a

\* C21: with both reserves positive the quote the agents use does not decrease
\* when the amount in grows and is less than the reserve out; with a zero
\* reserve the quote fails instead of returning a value.
C21_Quote ==
    (call.fn = "calculate_swap_output" /\ call.read_ok) =>
        /\ (QuoteReserveIn > 0 /\ QuoteReserveOut > 0) =>
              /\ ~call.raised
              /\ call.result <= call.result_more
              /\ call.result_more < QuoteReserveOut
        /\ (QuoteReserveIn = 0 \/ QuoteReserveOut = 0) => call.raised

\* the part of C21 about positive reserves
QuoteMonotoneAndBounded ==
    (call.fn = "calculate_swap_output" /\ call.read_ok
     /\ QuoteReserveIn > 0 /\ QuoteReserveOut > 0) =>
        /\ call.result <= call.result_more
        /\ call.result_more < QuoteReserveOut

\* C22: calculate_impermanent_loss returns exactly 0 when no initial reserves
\* are recorded, when one of the four reserves is zero, and when the current
\* reserves equal the initial ones.  ((1 + il)^2 = 1, and 1 + il is not
\* negative.)
C22_NoLoss ==
    call.fn = "calculate_impermanent_loss" =>
        LET current_a == IF call.read_ok THEN call.reserve_a ELSE 0
            current_b == IF call.read_ok THEN call.reserve_b ELSE 0
        IN  (\/ IsNone(call.initial_reserves)
             \/ current_a = 0 \/ current_b = 0
             \/ call.initial_reserves[1]["A"] = 0
             \/ call.initial_reserves[1]["B"] = 0
             \/ call.initial_reserves[1] = [A |-> current_a, B |-> current_b])
            => call.result.num = call.result.den

\* the pool is where the market maker found it, at reserves (1, 2)
C22_Witness ==
    /\ call.fn = "calculate_impermanent_loss" /\ call.read_ok
    /\ call.initial_reserves = Some([A |-> 1, B |-> 2])
    /\ call.reserve_a = 1 /\ call.reserve_b = 2
    /\ call.result.num = call.result.den

\* the pool was empty for a call that read its reserves: a reserve is zero,
\* or the read failed
ReadEmptyPool == ~call.read_ok \/ call.reserve_a = 0 \/ call.reserve_b = 0

\* C23: whatever the pool holds, calculate_optimal_liquidity_amounts returns
\* amounts between 0 and the available balances; on an empty pool equal
\* balances give equal amounts, 1000 and 1000 giving 900 and 900.
C23_WithinAvailable ==
    call.fn = "calculate_optimal_liquidity_amounts" =>
        /\ 0 <= call.result[1] /\ call.result[1] <= call.available_a
        /\ 0 <= call.result[2] /\ call.result[2] <= call.available_b
        /\ (ReadEmptyPool /\ call.available_a = call.available_b) =>
              call.result[1] = call.result[2]
        /\ (ReadEmptyPool /\ call.available_a = 1000 /\ call.available_b = 1000) =>
              call.result = <<900, 900>>

\* 1000 of each token and an empty pool
C23_Witness ==
    /\ call.fn = "calculate_optimal_liquidity_amounts"
    /\ call.read_ok /\ call.reserve_a = 0 /\ call.reserve_b = 0
    /\ call.available_a = 1000 /\ call.available_b = 1000
    /\ call.result = <<900, 900>>

C25_NinetyPercent ==
    call.fn = "calculate_optimal_liquidity_amounts" =>
        /\ call.result[1] * 10 <= call.available_a * 9
        /\ call.result[2] * 10 <= call.available_b * 9

\* what a step that was called alone handed to the chain, and of it the
\* operations of the given kinds
StepSubmitted == call.result.ledger.submitted
StepOps(kinds) == {k \in DOMAIN StepSubmitted : StepSubmitted[k].op.kind \in kinds}

\* what the step read: a failed read is answered 0
StepRead(value, read_ok) == IF read_ok THEN value ELSE 0

\* C26: one step of the market maker hands the chain at most one liquidity
\* operation: a deposit only when the pool token balance is 0 and a token
\* balance is positive; otherwise, and only when the pool is off balance, the
\* removal of a tenth of the pool token balance, when that is positive.
C26_OneLiquidityOperation ==
    call.fn = "market_maker_step" =>
        LET addr        == call.agent.address
            lp_balance  == StepRead(call.ledger.lp[addr], call.ans.lp)
            balance_a   == StepRead(call.ledger.balance[addr]["A"], call.ans.balance_a)
            balance_b   == StepRead(call.ledger.balance[addr]["B"], call.ans.balance_b)
            reserve_a   == StepRead(call.ledger.reserve["A"], call.ans.quote)
            reserve_b   == StepRead(call.ledger.reserve["B"], call.ans.quote)
            no_position == lp_balance = 0 /\ (balance_a > 0 \/ balance_b > 0)
            \* reserve_a / (reserve_a + reserve_b) above 0.55 or below 0.45
            off_balance == /\ reserve_a > 0 /\ reserve_b > 0
                           /\ \/ 20 * reserve_a > 11 * (reserve_a + reserve_b)
                              \/ 20 * reserve_a < 9 * (reserve_a + reserve_b)
        IN  /\ Cardinality(StepOps({"addLiquidity", "removeLiquidity"})) <= 1
            /\ StepOps({"addLiquidity"}) # {} => no_position
            /\ \A k \in StepOps({"removeLiquidity"}) :
                  /\ ~no_position
                  /\ off_balance
                  /\ StepSubmitted[k].op.lp_amount > 0
                  /\ 10 * StepSubmitted[k].op.lp_amount <= lp_balance
                  /\ lp_balance < 10 * (StepSubmitted[k].op.lp_amount + 1)

\* a market maker holding 12 of the pool's token takes 1 out of a pool that
\* is off balance
C26_Witness ==
    /\ call.fn = "market_maker_step"
    /\ call.ledger.lp[call.agent.address] = 12
    /\ \E k \in StepOps({"removeLiquidity"}) :
          /\ ~StepSubmitted[k].failed
          /\ StepSubmitted[k].op.lp_amount = 1
    /\ Len(call.result.report.actions_taken) = 1

OnlySwapOf(token_in, amount_in) ==
    /\ Len(StepSubmitted) >= 1
    /\ StepSubmitted[1].op = [kind |-> "approve", token |-> token_in]
    /\ Len(StepSubmitted) = IF StepSubmitted[1].failed THEN 1 ELSE 2
    /\ ~StepSubmitted[1].failed =>
          /\ StepSubmitted[2].op.kind = "swap"
          /\ StepSubmitted[2].op.token_in = token_in
          /\ StepSubmitted[2].op.amount_in = amount_in

\* C28: one step of the momentum trader submits at most one swap: of token B
\* when the momentum is above the threshold and balance_b above
\* min_trade_size, of token A when the momentum is below minus the threshold
\* and balance_a above min_trade_size, and none when the momentum is within
\* the threshold.
C28_MomentumStep ==
    call.fn = "momentum_trader_step" =>
        LET addr      == call.agent.address
            threshold == call.agent.momentum_threshold
            momentum  == CalculateMomentum(call.agent.price_history,
                                           call.agent.lookback_periods)
            \* momentum > threshold / 100, and momentum < - threshold / 100
            rising    == /\ ~momentum.raised
                         /\ 100 * momentum.value.num > threshold * momentum.value.den
            falling   == /\ ~momentum.raised
                         /\ 0 - 100 * momentum.value.num > threshold * momentum.value.den
            balance_a == StepRead(call.ledger.balance[addr]["A"], call.ans.balance_a)
            balance_b == StepRead(call.ledger.balance[addr]["B"], call.ans.balance_b)
        IN  /\ Cardinality(StepOps({"swap"})) <= 1
            /\ (rising /\ balance_b > min_trade_size) =>
                  OnlySwapOf("B", balance_b \div 10)
            /\ (falling /\ balance_a > min_trade_size) =>
                  OnlySwapOf("A", balance_a \div 10)
            /\ (~rising /\ ~falling) => StepSubmitted = <<>>
            /\ (rising /\ balance_b <= min_trade_size) => StepSubmitted = <<>>
            /\ (falling /\ balance_a <= min_trade_size) => StepSubmitted = <<>>

\* the price fell from 1.3 to 1, by less than 40% and by more than 2%: a
\* trader with the threshold 2% sells token A, one with 40% does nothing
C28_Witness ==
    /\ call.fn = "momentum_trader_step"
    /\ call.agent.price_history = <<Fraction(13, 10), Fraction(1, 1)>>
    /\ call.agent.lookback_periods = 2
    /\ call.agent.momentum_threshold = 2
    /\ StepOps({"swap"}) # {}
    /\ \A k \in StepOps({"swap"}) :
          StepSubmitted[k].op.token_in = "A" /\ ~StepSubmitted[k].failed

\* C29: one step of the arbitrage trader executes only the first leg: it
\* submits at most one swap, of token A and of the amount tested (a tenth of
\* balance A, truncated), and nothing of the leg from B to A.
C29_FirstLegOnly ==
    call.fn = "arbitrage_trader_step" =>
        LET addr      == call.agent.address
            balance_a == StepRead(call.ledger.balance[addr]["A"], call.ans.balance_a)
        IN  /\ Cardinality(StepOps({"swap"})) <= 1
            /\ \A k \in StepOps({"swap"}) :
                  /\ StepSubmitted[k].op.token_in = "A"
                  /\ 10 * StepSubmitted[k].op.amount_in <= balance_a
                  /\ balance_a < 10 * (StepSubmitted[k].op.amount_in + 1)
            /\ \A k \in StepOps({"approve"}) : StepSubmitted[k].op.token = "A"

\* 2000 of 20000 of token A go into the deep pool, and the trade is reported
C29_Witness ==
    /\ call.fn = "arbitrage_trader_step"
    /\ \E k \in StepOps({"swap"}) :
          /\ ~StepSubmitted[k].failed
          /\ StepSubmitted[k].op.amount_in = 2000
    /\ Len(call.result.report.actions_taken) = 1

\* the quote of `amount_in` of `token_in` a call makes on the chain it was
\* given: 0 when the read fails or a reserve is zero
QuoteRead(amount_in, token_in, read_ok) ==
    IF read_ok /\ call.ledger.reserve["A"] > 0 /\ call.ledger.reserve["B"] > 0
    THEN GetAmountOut(amount_in, call.ledger.reserve[token_in],
                      call.ledger.reserve[Other(token_in)])
    ELSE 0

\* C30: should_act of the arbitrage trader is true exactly when balance A is
\* above min_trade_size and the round trip from A to B to A of a tenth of
\* balance A returns a_received with (a_received - test_amount) / test_amount
\* above min_profit_threshold; a failure while evaluating that gives false,
\* and the call raises nothing.
C30_ArbitrageShouldAct ==
    call.fn = "arbitrage_trader_should_act" =>
        LET addr        == call.agent.address
            balance_a   == StepRead(call.ledger.balance[addr]["A"],
                                    call.ans.ask_balance_a)
            test_amount == balance_a \div 10
            b_received  == QuoteRead(test_amount, "A", call.ans.ask_reserves)
            a_received  == QuoteRead(b_received, "B", call.ans.ask_reserves)
        IN  /\ ~call.result.raised
            /\ call.result.result =
                  (/\ balance_a > min_trade_size
                   /\ 100 * (a_received - test_amount)
                         > call.agent.min_profit_threshold * test_amount)
            /\ (~call.ans.ask_balance_a \/ ~call.ans.ask_reserves) =>
                  ~call.result.result

\* a trader content with losing less than nine tenths finds the round trip
\* through the deep pool worth it
C30_Witness ==
    /\ call.fn = "arbitrage_trader_should_act"
    /\ call.agent.min_profit_threshold = 0 - 90
    /\ call.ledger.balance[call.agent.address]["A"] = 20000
    /\ call.result.result

\* C31: every swap a random trader submits takes a token of which the balance
\* is above min_trade_size, and an amount from min_trade_size up to a tenth
\* of that balance (truncated), so never more than the agent holds.
C31_RandomSwapAmount ==
    call.fn = "random_trader_step" =>
        \A k \in StepOps({"swap"}) :
            LET op      == StepSubmitted[k].op
                held    == call.ledger.balance[call.agent.address][op.token_in]
                balance == StepRead(held, IF op.token_in = "A"
                                          THEN call.ans.balance_a
                                          ELSE call.ans.balance_b)
            IN  /\ balance > min_trade_size
                /\ min_trade_size <= op.amount_in
                /\ 10 * op.amount_in <= balance
                /\ op.amount_in <= held

\* a trader holding 10010 of a token swaps 1000 or 1001 of it
C31_Witness ==
    /\ call.fn = "random_trader_step"
    /\ \E k \in StepOps({"swap"}) :
          /\ call.ledger.balance[call.agent.address][StepSubmitted[k].op.token_in]
                = 10010
          /\ StepSubmitted[k].op.amount_in = 1001
          /\ ~StepSubmitted[k].failed

\* the agent's cached nonce is the chain's transaction count of its address
NonceCurrent(a) == a.nonce = ledger.tx_count[a.address]

\* C32: whenever an agent is about to submit an operation, its cached nonce
\* equals the chain's transaction count for its address: after the initial
\* distribution, and after any submissions that succeeded, were reverted or
\* timed out.
C32_NonceConsistency ==
    (pc = "agents" /\ agent_index <= Len(agents)) =>
        NonceCurrent(agents[agent_index])

\* the same of the agents that do not sign with the deployer's key
NonceConsistencyOfOthers ==
    (pc = "agents" /\ agent_index <= Len(agents)
     /\ agents[agent_index].address # DeployerAddress) =>
        NonceCurrent(agents[agent_index])

\* the calls of a step
StepCalls ==
    {"random_trader_step", "momentum_trader_step", "arbitrage_trader_step",
     "market_maker_step"}

\* the swaps and liquidity operations of a step called alone that succeeded
\* on the chain
StepSucceeded ==
    {k \in StepOps({"swap", "addLiquidity", "removeLiquidity"}) :
        ~StepSubmitted[k].failed}

\* C33: a swap or liquidity operation that succeeded on the chain is
\* reflected by exactly one entry in the agent's trade_history and one in the
\* step's actions_taken, and every entry of actions_taken is an operation
\* that succeeded, also when log_trade's read of the chain fails.
C33_RecordsMatchLedger ==
    call.fn \in StepCalls =>
        /\ Len(call.result.agent.trade_history) - Len(call.agent.trade_history)
              = Cardinality(StepSucceeded)
        /\ Len(call.result.report.actions_taken) = Cardinality(StepSucceeded)

\* the same of the steps in which the read of the latest block succeeds
RecordsMatchLedgerWhenLogged ==
    (call.fn \in StepCalls /\ call.ans.log) =>
        /\ Len(call.result.agent.trade_history) - Len(call.agent.trade_history)
              = Cardinality(StepSucceeded)
        /\ Len(call.result.report.actions_taken) = Cardinality(StepSucceeded)

\* C34: the quotes of a round trip being taken from unchanged reserves of a
\* constant-product pool, the round trip returns no more than went in; so
\* with a min_profit_threshold of 0 or more should_act of the arbitrage
\* trader is false and its step submits nothing.
C34_NoArbitrage ==
    /\ call.fn = "arbitrage_trader_should_act" =>
          LET balance_a   == StepRead(call.ledger.balance[call.agent.address]["A"],
                                      call.ans.ask_balance_a)
              test_amount == balance_a \div 10
              b_received  == QuoteRead(test_amount, "A", call.ans.ask_reserves)
              a_received  == QuoteRead(b_received, "B", call.ans.ask_reserves)
          IN  /\ a_received <= test_amount
              /\ call.agent.min_profit_threshold >= 0 => ~call.result.result
    /\ (call.fn = "arbitrage_trader_step" /\ call.agent.min_profit_threshold >= 0) =>
          /\ StepSubmitted = <<>>
          /\ call.result.report.actions_taken = <<>>

\* a trader asking for any profit at all, with 20000 of token A, at a pool of
\* 20000 and 40000 that answers every read
C34_Witness ==
    /\ call.fn = "arbitrage_trader_should_act"
    /\ call.agent.min_profit_threshold = 0
    /\ call.ledger.balance[call.agent.address]["A"] = 20000
    /\ call.ledger.reserve = [A |-> 20000, B |-> 40000]
    /\ call.ans.ask_balance_a /\ call.ans.ask_reserves
    /\ QuoteRead(2000, "A", TRUE) > 0
    /\ ~call.result.result

\* C35: while the reads of the pool token balance succeed, a market maker
\* holding a position never takes the deposit branch again: its step submits
\* no deposit, and the removal of a tenth (truncated) leaves the position
\* positive; and a deposit that succeeded gives it a position.  So it adds
\* liquidity at most once in a run.
C35_AddOnce ==
    call.fn = "market_maker_step" =>
        LET addr   == call.agent.address
            before == call.ledger.lp[addr]
            after  == call.result.ledger.lp[addr]
        IN  /\ (call.ans.lp /\ before > 0) =>
                  /\ StepOps({"addLiquidity"}) = {}
                  /\ after > 0
            /\ (\E k \in StepOps({"addLiquidity"}) : ~StepSubmitted[k].failed) =>
                  after > 0

\* a position of 10 of which 1 is taken out
C35_Witness ==
    /\ call.fn = "market_maker_step" /\ call.ans.lp
    /\ call.ledger.lp[call.agent.address] = 10
    /\ call.result.ledger.lp[call.agent.address] = 9
    /\ StepOps({"addLiquidity"}) = {}

\* C36: the report of an interrupted run gives as total_steps the number of
\* ticks that completed, which is the number of records in step_results.
C36_InterruptedTotalSteps ==
    (pc = "done" /\ interrupted) =>
        simulation_results[1].execution_summary.total_steps = Len(step_results)

\* how many of the submissions in `log` returned a successful receipt
Receipts(log) == Cardinality({k \in 1 .. Len(log) : ~log[k].failed})

\* the chain starts with every transaction count at 0 (NewLedger), so 0 is the
\* nonce every agent reads at construction
CountersAgree ==
    \A i \in 1 .. Len(agents) :
        /\ agents[i].nonce = 0 + agents[i].transaction_count
        /\ agents[i].total_gas_used = GasUsed * agents[i].transaction_count

\* a step of the run moves the counters of an agent by the successful receipts
\* of the turn it took, if it took one; its trade_history only grows, and does
\* not change without a successful receipt
CountersStep ==
    \A i \in 1 .. Len(agents) :
        LET before   == agents[i]
            after    == agents'[i]
            turn     == pc = "agents" /\ agent_index = i /\ agent_index' = i + 1
            receipts == IF turn THEN Receipts(ledger'.submitted) ELSE 0
        IN  /\ after.transaction_count = before.transaction_count + receipts
            /\ after.nonce = before.nonce + receipts
            /\ after.total_gas_used = before.total_gas_used + receipts * GasUsed
            /\ Len(after.trade_history) >= Len(before.trade_history)
            /\ receipts = 0 => after.trade_history = before.trade_history

\* C37: every agent's nonce is its initial nonce plus its transaction_count,
\* transaction_count is the number of its submissions that returned a
\* successful receipt, and nonce, transaction_count, total_gas_used and
\* len(trade_history) never decrease; a failed submission leaves all four
\* unchanged.
C37_Counters == []CountersAgree /\ [][CountersStep]_vars

\* an agent with successful receipts behind it, after a turn in which a
\* submission failed
C37_Witness ==
    \E k \in Turns :
        /\ agents[tick.turns[k].agent].transaction_count >= 2
        /\ agents[tick.turns[k].agent].trade_history # <<>>
        /\ \E j \in 1 .. Len(tick.turns[k].submitted) : tick.turns[k].submitted[j].failed

\* C38: with both reserves nonzero and balances that are not negative,
\* calculate_optimal_liquidity_amounts returns from its first or its second
\* branch: the scaling of both amounts, with its divisions by required_a and
\* required_b, is never executed.
C38_NoScaleDown ==
    (call.fn = "calculate_optimal_liquidity_amounts" /\ ~ReadEmptyPool) =>
        /\ call.branch \in {"token_a_first", "token_b_first"}
        /\ call.branch = "token_b_first" =>
              call.result = <<MulDiv((call.available_b * 9) \div 10,
                                     call.reserve_a, call.reserve_b),
                              (call.available_b * 9) \div 10>>

\* 12 of token A, 2 of token B and a pool at 3:1: 90% of token A asks for 3 of
\* token B, so the second branch returns, with the 1 of token B and 3 of token A
C38_Witness ==
    /\ call.fn = "calculate_optimal_liquidity_amounts" /\ call.read_ok
    /\ call.reserve_a = 3 /\ call.reserve_b = 1
    /\ call.available_a = 12 /\ call.available_b = 2
    /\ call.branch = "token_b_first"
    /\ call.result = <<3, 1>>

====
